---------------------------- MODULE Spec2Model ----------------------------
(***************************************************************************)
(* A model of the OpenClaw dev agent: the command validator                *)
(* (util/proc.js), the sandbox job pipeline (agent/sandbox.js and          *)
(* agent/plan.js) and the brain store (brain/brain.js).                    *)
(*                                                                         *)
(* The specifications share the variables:                                 *)
(*   Spec          one sandboxFastPR job from its call to its outcome      *)
(*   SpecLive      the same job with every awaited call settling           *)
(*   SpecToken     one failing task run twice with two access tokens       *)
(*   SpecAgain     a job on a thread whose earlier job has failed          *)
(*   SpecFinish    two concurrent jobs of one thread at their last         *)
(*                 recordThreadError                                       *)
(*   SpecValidator commandAllowed applied to bounded (program, arguments)  *)
(*   SpecStore     saveThread / saveRepo / recordThreadError of one        *)
(*                 caller against the storage bucket                       *)
(*   SpecRace      saveThread of two concurrent callers on one key         *)
(*   SpecKeys      brainObjectPath applied to two logical keys of a kind   *)
(*   SpecClamp     the clamps of claudeSandboxPlan applied to parsed JSON  *)
(*   SpecText      extractJsonFromText and parsePlanJson on response texts *)
(*   SpecJobs      two job attempts drawing ids, directories and branches  *)
(*   SpecRate      rateLimitOk on the requests of the mention handler      *)
(*   SpecHandler   the app_mention handler on a task block: loads, the     *)
(*                 job, the saves and the reply                            *)
(***************************************************************************)
EXTENDS Integers, Sequences, FiniteSets, TLC

(***************************************************************************)
(* Bounds of the model.                                                    *)
(***************************************************************************)
\* longest argument list of a step drawn for the validator
MaxArgs == 2
\* longest steps array of a parsed JSON handed to the clamps
MaxRawSteps == 32
\* longest verify.commands array of a parsed JSON handed to the clamps
MaxRawVerify == 8
\* longest plan (number of steps) the modelled language model returns
MaxSteps == 3
\* most verification commands in a modelled plan
MaxVerify == 1
\* store operations that may fail (read or write) during one job
MaxStoreFaults == 1
\* last clock value; the clock stops advancing there
MaxClock == 2
\* save calls one caller of the store makes
MaxSaves == 2

(***************************************************************************)
(* The state: the validator's run, the store, the job.                     *)
(***************************************************************************)
VARIABLES
    vCmd,       \* validator run: the program handed to commandAllowed
    vArgs,      \* validator run: the argument list
    vVerdict    \* validator run: {} before the call, else {its result}

vvars == <<vCmd, vArgs, vVerdict>>

VARIABLES
    enabled,    \* createBrain: !!storage && !!bucket
    bucket,     \* the storage bucket: object path -> stored object or Absent
    clock,      \* the wall clock, an index into IsoTimes
    call,       \* the store caller's save in flight
    nSaves,     \* save calls the store caller has made
    lastSave    \* the last save that ended, as its caller saw it

svars == <<enabled, bucket, clock, call, nSaves, lastSave>>

VARIABLES
    cfg,        \* what the caller passes: clients, token, config.runTests
    pc,         \* the job's position
    plan,       \* the plan claudeSandboxPlan returned, NoPlan before
    i,          \* the plan step the step loop is at
    vi,         \* the verification command the verification loop is at
    ops,        \* every subprocess spawned and API call made, in order
    thrown,     \* the error sandboxFastPR threw to its caller
    pr,         \* the pull request created
    dirMade,    \* the job directory was created
    faults      \* store operations that failed during the job

jvars == <<cfg, pc, plan, i, vi, ops, thrown, pr, dirMade, faults>>

VARIABLES
    racers,     \* two concurrent callers of saveThread: caller -> its save
    wrote       \* the callers whose upload succeeded, in the order it did

rvars == <<racers, wrote>>

VARIABLES
    keyRun      \* key run: a scope kind, two logical keys and their paths

kvars == <<keyRun>>

VARIABLES
    hpc,        \* handler: the position of the app_mention handler
    hThread,    \* handler: threadState, what loadThread returned
    hRepoMem,   \* handler: repoMem, what loadRepo returned
    said,       \* handler: the last message said to the thread
    hRepoRef,   \* handler: taskBlock.repoRef, Null when the repo line is left out
    hDone       \* handler: the mentions of the thread handled before this one

hvars == <<hpc, hThread, hRepoMem, said, hRepoRef, hDone>>

VARIABLES
    rawJson,    \* clamp run: the value parsePlanJson returned
    clamped     \* clamp run: {} before the clamps, else {what they gave}

gvars == <<rawJson, clamped>>

VARIABLES
    text,       \* text run: the response and what it was made of
    extracted,  \* text run: {} before extractJsonFromText, else {its result}
    parsed      \* text run: {} before parsePlanJson, else {its result}

tvars == <<text, extracted, parsed>>

VARIABLES
    attempts    \* attempts run: attempt -> its state, target, id, directory, branch

avars == <<attempts>>

VARIABLES
    rateState,  \* limiter run: the Map of rateLimit.js, key -> { ts, count } or Absent
    nowMs,      \* limiter run: Date.now()
    admitted,   \* limiter run: user -> the instants of the requests let through
    answer      \* limiter run: what the last mention was answered with

lvars == <<rateState, nowMs, admitted, answer>>

VARIABLES
    runs        \* token run: run -> its token, position, store and reply

uvars == <<runs>>

yvars == <<avars, lvars, uvars>>

\* the variables of the specifications other than Spec, SpecValidator, SpecStore
xvars == <<rvars, kvars, hvars, gvars, tvars, yvars>>

vars == <<vvars, svars, jvars, xvars>>

(***************************************************************************)
(* Strings the validator inspects are sequences of characters, so that     *)
(* join, toLowerCase and includes are computed and not assumed.            *)
(***************************************************************************)
Upper == <<"A","B","C","D","E","F","G","H","I","J","K","L","M",
           "N","O","P","Q","R","S","T","U","V","W","X","Y","Z">>
Lower == <<"a","b","c","d","e","f","g","h","i","j","k","l","m",
           "n","o","p","q","r","s","t","u","v","w","x","y","z">>

\* String.prototype.toLowerCase on one character
LowerChar(c) ==
    IF \E k \in 1..26 : Upper[k] = c
    THEN Lower[CHOOSE k \in 1..26 : Upper[k] = c]
    ELSE c

\* String.prototype.toLowerCase
toLowerCase(s) ==
    LET lowered == [k \in 1..Len(s) |-> LowerChar(s[k])]
    IN  SubSeq(lowered, 1, Len(s))

\* Array.prototype.join(' ')
RECURSIVE join(_)
join(parts) ==
    IF Len(parts) = 0 THEN << >>
    ELSE IF Len(parts) = 1 THEN parts[1]
    ELSE parts[1] \o <<" ">> \o join(Tail(parts))

\* String.prototype.includes
includes(s, b) ==
    \E k \in 0..(Len(s) - Len(b)) : SubSeq(s, k + 1, k + Len(b)) = b

\* program names
git  == <<"g","i","t">>
npm  == <<"n","p","m">>
node == <<"n","o","d","e">>
bash == <<"b","a","s","h">>
sh   == <<"s","h">>
GIT  == <<"G","I","T">>
curl == <<"c","u","r","l">>

\* the allow set of commandAllowed
allow == {git, npm, node}

\* the blocked substrings of commandAllowed
blocked == {
    <<"b","a","s","h"," ","-","c">>,
    <<"s","h"," ","-","c">>,
    <<"c","u","r","l">>,
    <<"w","g","e","t">>,
    <<"n","c"," ">>,
    <<"n","e","t","c","a","t">>,
    <<"s","s","h"," ">>,
    <<"s","c","p"," ">>,
    <<"s","f","t","p">> }

\* commandAllowed with the toLowerCase call left out
commandAllowedCaseSensitive(cmd, args) ==
    /\ cmd \in allow
    /\ ~ \E b \in blocked : includes(join(<<cmd>> \o args), b)

\* commandAllowed with the allow-set test left out
commandAllowedNoAllowSet(cmd, args) ==
    ~ \E b \in blocked : includes(toLowerCase(join(<<cmd>> \o args)), b)

\* commandAllowed(cmd, args)
commandAllowed(cmd, args) ==
    /\ cmd \in allow
    /\ \A joined \in {toLowerCase(join(<<cmd>> \o args))} :
           ~ \E b \in blocked : includes(joined, b)

(***************************************************************************)
(* Inputs of the validator.                                                *)
(***************************************************************************)
Programs == {git, npm, node, bash, sh, GIT, curl}

ArgTokens == {
    <<"-","c">>,
    <<"a","d","d">>,
    <<"C","u","r","L">>,
    <<"s","y","n","c">>,
    <<"s","h">>,
    <<"b","a","s","h">>,
    <<"w","g","e","t">>,
    <<"s","s","h">>,
    <<"t","e","s","t">> }

ArgLists == UNION {[1..n -> ArgTokens] : n \in 0..MaxArgs}


VInit ==
    /\ vCmd \in Programs
    /\ vArgs \in ArgLists
    /\ vVerdict = {}

VIdle ==
    /\ vCmd = git
    /\ vArgs = << >>
    /\ vVerdict = {}

\* one call of commandAllowed
VCheck ==
    /\ vVerdict = {}
    /\ vVerdict' = {commandAllowed(vCmd, vArgs)}
    /\ UNCHANGED <<vCmd, vArgs, svars, jvars, xvars>>

VNext == VCheck


(***************************************************************************)
(* The brain store (brain/brain.js).  A stored object is a function from   *)
(* the field names it holds to their values; every value is a record, so   *)
(* that values of different kinds can be told apart.                       *)
(***************************************************************************)
\* JavaScript null and undefined as field values
Null == [null |-> TRUE]
Undefined == [undefined |-> TRUE]
\* no object under a path
Absent == [absent |-> TRUE]
\* a string and a number as field values
Str(s) == [s |-> s]
Num(n) == [n |-> n]

\* ISO timestamps in clock order; nowIso() is the entry the clock points to
IsoTimes == <<"T1", "T2", "T3", "T4", "T5", "T6">>

\* nowIso()
nowIso(clk) == [iso |-> IsoTimes[clk]]

\* obj.field as JavaScript reads it: undefined when the object lacks it
Get(obj, f) == IF f \in DOMAIN obj THEN obj[f] ELSE Undefined

\* the characters brainObjectPath keeps: [a-zA-Z0-9._:@-]
SafeChars ==
    {Upper[k] : k \in 1..26} \cup {Lower[k] : k \in 1..26}
    \cup {"0","1","2","3","4","5","6","7","8","9"}
    \cup {".", "_", ":", "@", "-"}

\* the schema version every write stamps
SchemaVersion == 1

\* brainObjectPath(prefix, kind, key): the prefix is one fixed namespace
brainObjectPath(kind, key) ==
    <<kind, [k \in 1..Len(key) |-> IF key[k] \in SafeChars THEN key[k] ELSE "_"]>>

\* repoKey(owner, repo)
repoKey(owner, repo) == owner \o <<"/">> \o repo

\* the thread and the repository of the model
ThreadKey == <<"T", ":", "C", ":", "1">>
Owner == <<"o">>
Repo == <<"r">>

ThreadPath == brainObjectPath("threads", ThreadKey)
RepoPath == brainObjectPath("repos", repoKey(Owner, Repo))
ObjPaths == {ThreadPath, RepoPath}

\* JSON.stringify then JSON.parse of an object: a field whose value is
\* undefined is not written
jsonRoundTrip(obj) ==
    [f \in {g \in DOMAIN obj : obj[g] # Undefined} |-> obj[f]]

\* { ...existing, ...patch, updatedAt: nowIso(), version: 1 } with the
\* stamps spread before the patch
mergedStampsFirst(existing, patch, clk) ==
    [f \in DOMAIN existing \cup DOMAIN patch \cup {"updatedAt", "version"} |->
        IF f \in DOMAIN patch THEN patch[f]
        ELSE IF f = "updatedAt" THEN nowIso(clk)
        ELSE IF f = "version" THEN Num(SchemaVersion)
        ELSE existing[f]]

\* { ...existing, ...patch, updatedAt: nowIso(), version: 1 }
merged(existing, patch, clk) ==
    [f \in DOMAIN existing \cup DOMAIN patch \cup {"updatedAt", "version"} |->
        IF f = "updatedAt" THEN nowIso(clk)
        ELSE IF f = "version" THEN Num(SchemaVersion)
        ELSE IF f \in DOMAIN patch THEN patch[f]
        ELSE existing[f]]

\* { lastErrorAt: nowIso(), ...patch }: the patch recordThreadError saves
errorPatch(patch, clk) ==
    [f \in DOMAIN patch \cup {"lastErrorAt"} |->
        IF f \in DOMAIN patch THEN patch[f] ELSE nowIso(clk)]

\* the empty object {}
EmptyObj == [f \in {} |-> Undefined]


(***************************************************************************)
(* The store's state and one caller's save, in the steps its awaits cut    *)
(* it into: the call, the download (gcsReadJson) and the upload            *)
(* (gcsWriteJson).                                                         *)
(***************************************************************************)

\* no save in flight
IdleCall == [pc |-> "idle"]
\* no save has ended since the last call
NoSave == [outcome |-> "none"]

\* the patches the store caller passes: any choice of values for any subset
\* of two data fields, with or without stamp fields of its own
PatchFieldValues ==
    [lastRepo |-> {Str("a"), Str("b")}, lastError |-> {Str("e"), Undefined}]
StampPatches ==
    {EmptyObj,
     [f \in {"updatedAt", "version"} |-> IF f = "version" THEN Num(7) ELSE [iso |-> "T0"]]}
DataPatches ==
    UNION {[D -> {Str("a"), Str("b"), Str("e"), Undefined}] :
              D \in SUBSET {"lastRepo", "lastError"}}
Patches ==
    {[f \in DOMAIN d \cup DOMAIN st |-> IF f \in DOMAIN d THEN d[f] ELSE st[f]] :
        d \in {x \in DataPatches : \A f \in DOMAIN x : x[f] \in PatchFieldValues[f]},
        st \in StampPatches}

SInit ==
    /\ enabled \in BOOLEAN
    /\ bucket = [p \in ObjPaths |-> Absent]
    /\ clock = 1
    /\ call = IdleCall
    /\ nSaves = 0
    /\ lastSave = NoSave

SIdle ==
    /\ enabled = TRUE
    /\ bucket = [p \in ObjPaths |-> Absent]
    /\ clock = 1
    /\ call = IdleCall
    /\ nSaves = 0
    /\ lastSave = NoSave

\* the entry of saveThread / saveRepo: `if (!enabled) return`, else the path
\* is computed and the download requested
SaveEnter(fn, path, patch, swallow) ==
    /\ call.pc = "idle"
    /\ nSaves < MaxSaves
    /\ nSaves' = nSaves + 1
    /\ IF ~enabled
       THEN /\ call' = IdleCall
            /\ lastSave' = [outcome |-> "noop", fn |-> fn, path |-> path,
                            patch |-> patch]
       ELSE /\ call' = [pc |-> "reading", fn |-> fn, path |-> path,
                        patch |-> patch, swallow |-> swallow]
            /\ lastSave' = NoSave
    /\ UNCHANGED <<enabled, bucket, clock, vvars, jvars, xvars>>

\* saveThread(threadKey, patch)
saveThread ==
    \E patch \in Patches :
        SaveEnter("saveThread", brainObjectPath("threads", ThreadKey), patch, FALSE)

\* saveRepo(owner, repo, patch)
saveRepo ==
    \E patch \in Patches :
        SaveEnter("saveRepo", brainObjectPath("repos", repoKey(Owner, Repo)),
                  patch, FALSE)

\* recordThreadError without its try / catch
recordThreadErrorNoCatch ==
    \E patch \in Patches :
        SaveEnter("recordThreadError", brainObjectPath("threads", ThreadKey),
                  errorPatch(patch, clock), FALSE)

\* recordThreadError(threadKey, patch): saveThread inside try / catch
recordThreadError ==
    \E patch \in Patches :
        SaveEnter("recordThreadError", brainObjectPath("threads", ThreadKey),
                  errorPatch(patch, clock), TRUE)

\* what gcsReadJson returns: the parsed object, or null (here Absent) when
\* the object is missing (404) or the download or the parse fails
gcsReadJsonResults(path) == {bucket[path], Absent}

\* `(await gcsReadJson(...)) || {}`
orEmpty(read) == IF read = Absent THEN EmptyObj ELSE read

\* gcsReadJson returns inside a save; merged is built at once
gcsReadJson ==
    /\ call.pc = "reading"
    /\ \E read \in gcsReadJsonResults(call.path) :
        call' = [pc |-> "writing", fn |-> call.fn, path |-> call.path,
                 patch |-> call.patch, swallow |-> call.swallow,
                 prior |-> bucket[call.path],
                 readOk |-> (read = bucket[call.path]),
                 issuedAt |-> nowIso(clock),
                 merged |-> merged(orEmpty(read), call.patch, clock)]
    /\ UNCHANGED <<enabled, bucket, clock, nSaves, lastSave, vvars, jvars, xvars>>

\* gcsWriteJson ends inside a save: the object is replaced by the text of
\* merged, or the upload fails and the save throws (recordThreadError
\* catches)
gcsWriteJson ==
    /\ call.pc = "writing"
    /\ \E ok \in BOOLEAN :
        /\ bucket' = IF ok THEN [bucket EXCEPT ![call.path] = jsonRoundTrip(call.merged)]
                     ELSE bucket
        /\ lastSave' = [outcome |-> IF ok THEN "returned"
                                    ELSE IF call.swallow THEN "swallowed"
                                    ELSE "raised",
                        fn |-> call.fn, path |-> call.path, patch |-> call.patch,
                        prior |-> call.prior, readOk |-> call.readOk,
                        issuedAt |-> call.issuedAt]
    /\ call' = IdleCall
    /\ UNCHANGED <<enabled, clock, nSaves, vvars, jvars, xvars>>

\* time passes
Tick ==
    /\ clock < MaxClock
    /\ clock' = clock + 1
    /\ UNCHANGED <<enabled, bucket, call, nSaves, lastSave, vvars, jvars, xvars>>

SNext ==
    \/ saveThread
    \/ saveRepo
    \/ recordThreadError
    \/ gcsReadJson
    \/ gcsWriteJson
    \/ Tick


(***************************************************************************)
(* Captured output and error messages.  A text is known by where it came   *)
(* from (tag), its length, whether it is the whole text or only its head,  *)
(* and whether the truncation marker was appended.                         *)
(***************************************************************************)
Text(tag, len) == [tag |-> tag, len |-> len, part |-> "all", marked |-> FALSE]
NoText == Text("", 0)

\* the length of '\n…(truncated)…\n'
MarkerLen == 15
\* safeLogChunk's default max
DefaultLogMax == 3500
\* the cap of the stored log excerpt
StoredLogMax == 6000
\* the cap of the stored error message
StoredMessageMax == 800
\* the cap of the stored blocked command line
StoredCommandMax == 2000
\* the cap of the stored raw model output
StoredSnippetMax == 1800
\* the cap of the raw model output quoted by the parse failure
QuotedSnippetMax == 220

\* safeLogChunk(s, max)
safeLogChunk(s, max) ==
    IF s.len > max
    THEN [tag |-> s.tag, len |-> max + MarkerLen, part |-> "head", marked |-> TRUE]
    ELSE s

\* clampString(s, n): String(s || '').slice(0, n)
clampString(s, n) ==
    IF s = Null THEN NoText
    ELSE IF s.len > n THEN [s EXCEPT !.len = n, !.part = "head", !.marked = FALSE]
    ELSE s

\* s.trim() is the empty string
trimEmpty(s) == s.tag \in {"", "ws"}

\* what a subprocess may print
Stdouts == {NoText, Text("ws", 1), Text("out", 40)}
Stderrs == {NoText, Text("err", 7000)}

\* what runCmd resolves to: { code, out, err }; code -1 stands for the
\* promise rejected (the 'error' event: the program could not be spawned)
SpawnError == -1
RunResults ==
    [code : {0, 1}, out : Stdouts, err : Stderrs]
    \cup {[code |-> SpawnError, out |-> NoText, err |-> NoText]}

\* res.err || res.out
errOrOut(res) == IF res.err.len > 0 THEN res.err ELSE res.out

\* an Error: the leading words of its message, the command line and the log
\* chunk the message goes on with
Error(what, cmd, args, log) == [what |-> what, cmd |-> cmd, args |-> args, log |-> log]
NoError == Error("", << >>, << >>, NoText)
\* a string field of the error slot: fixed words, no log
Words(what) == Error(what, << >>, << >>, NoText)
\* clampString(e.message, 800); the cap is applied to the log the message carries
clampMessage(e, n) == [e EXCEPT !.log = clampString(e.log, n)]

\* the job identifier of the one job of the model
JobId == [id |-> "job1"]

\* a context tag of the error slot, `plan:exec:${cmd}` with its program
Context(tag, cmd) == [ctx |-> tag, of |-> cmd]


(***************************************************************************)
(* One job: sandboxFastPR (agent/sandbox.js) with claudeSandboxPlan        *)
(* (agent/plan.js).  Each action is the code from one await to the next:   *)
(* a subprocess or an API call together with the branch taken on its       *)
(* result.  A job is the only writer of the store, so each                 *)
(* recordThreadError of it is one step of its action.                      *)
(***************************************************************************)

NoPlan == [steps |-> << >>, verify |-> [commands |-> << >>, failed |-> FALSE, logs |-> NoText],
           none |-> TRUE]
NoPr == [created |-> FALSE, warning |-> FALSE]

\* a step of a plan: { cmd, args }
Step(cmd, args) == [cmd |-> cmd, args |-> args]

\* the steps and verification commands the modelled language model writes
StepChoices == {
    Step(git, << <<"a","d","d">> >>),
    Step(bash, << <<"-","c">>, <<"C","u","r","L">> >>),
    Step(npm, << <<"C","u","r","L">> >>) }
VerifyChoices == {
    << npm, <<"t","e","s","t">> >>,
    << sh, <<"-","c">> >> }

StepLists == UNION {[1..n -> StepChoices] : n \in 0..MaxSteps}
VerifyLists == UNION {[1..n -> VerifyChoices] : n \in 0..MaxVerify}

\* a JSON array; every other JSON value of the model is a record without
\* the field arr
Arr(seq) == [arr |-> seq]
\* Array.isArray(v)
isArray(v) == "arr" \in DOMAIN v

\* a response whose verify object holds, besides no commands, a failed flag
\* and logs of the language model's own writing
ClaimedFailedPlan ==
    [steps |-> Arr(<<Step(git, << <<"a","d","d">> >>)>>),
     verify |-> [commands |-> Arr(<< >>), failed |-> TRUE, logs |-> Text("claimed", 10)],
     none |-> FALSE]

\* the values parsePlanJson yields for the modelled responses
ParsedPlans ==
    {[steps |-> Arr(st),
      verify |-> [commands |-> Arr(vc), failed |-> FALSE, logs |-> NoText],
      none |-> FALSE] : st \in StepLists, vc \in VerifyLists}
    \cup {ClaimedFailedPlan}

\* the clamps of claudeSandboxPlan
MaxPlanSteps == 30
MaxPlanVerify == 6

\* arr.slice(0, n)
slice(arr, n) == SubSeq(arr, 1, IF Len(arr) < n THEN Len(arr) ELSE n)

\* a JSON value is falsy: json.verify || { commands: [] }
falsy(v) == v \in {Undefined, Null}
\* a JSON value is an object that can take a property (a verify object of
\* the model always names commands, as Undefined when the JSON has none)
takesProperty(v) == "commands" \in DOMAIN v

\* the verify object after `json.verify = json.verify || { commands: [] }`
orNoCommands(v) ==
    IF falsy(v) THEN [commands |-> Arr(<< >>), failed |-> FALSE, logs |-> NoText] ELSE v

\* the clamps throw: in strict mode `json.verify.commands = ...` on a truthy
\* primitive is a TypeError
clampsThrow(json) == ~takesProperty(orNoCommands(json.verify))

\* what a TypeError leaves in place of a plan
TypeError == [threw |-> "TypeError"]

\* (Array.isArray(v) ? v : []).slice(0, n)
arrayOrEmpty(v, n) == IF isArray(v) THEN slice(v.arr, n) ELSE << >>

\* the clamps without the slices
clampsUnsliced(json) ==
    LET v == orNoCommands(json.verify)
    IN [steps |-> IF isArray(json.steps) THEN json.steps.arr ELSE << >>,
        verify |-> [v EXCEPT !.commands =
                        IF isArray(v.commands) THEN v.commands.arr ELSE << >>],
        none |-> FALSE]

\* json.steps = (Array.isArray(json.steps) ? json.steps : []).slice(0, 30);
\* json.verify = json.verify || { commands: [] };
\* json.verify.commands = (Array.isArray(...) ? ... : []).slice(0, 6)
clamps(json) ==
    LET v == orNoCommands(json.verify)
    IN [steps |-> arrayOrEmpty(json.steps, MaxPlanSteps),
        verify |-> [v EXCEPT !.commands = arrayOrEmpty(v.commands, MaxPlanVerify)],
        none |-> FALSE]

\* how a subprocess or an API call ended, as far as the job looks at it
exitOf(res) ==
    IF res.code = SpawnError THEN "none"
    ELSE IF res.code = 0 THEN "zero" ELSE "nonzero"
\* the same where the job does not read the exit code
exitUnread(res) == IF res.code = SpawnError THEN "none" ELSE "unread"

\* one entry of ops; blank: git status printed nothing, or a response of the
\* language model yielded no plan
Op(op, idx, cmd, args, exit) ==
    [op |-> op, idx |-> idx, cmd |-> cmd, args |-> args, exit |-> exit, blank |-> FALSE,
     out |-> NoText, err |-> NoText]

\* the entry of a plan step or verification command: what it printed is kept
\* when it exited non-zero
RunOp(op, idx, cmd, args, res) ==
    [Op(op, idx, cmd, args, exitOf(res)) EXCEPT
        !.out = IF res.code > 0 THEN res.out ELSE NoText,
        !.err = IF res.code > 0 THEN res.err ELSE NoText]

\* how one recordThreadError of the job may end
StoreOutcomes == {"ok", "readFail", "writeFail"}

\* the bucket after recordThreadError(threadKey, patch) ended as `o`
recorded(b, patch, clk, o) ==
    IF ~enabled \/ o = "writeFail" THEN b
    ELSE LET path == brainObjectPath("threads", ThreadKey)
             existing == IF o = "readFail" THEN EmptyObj ELSE orEmpty(b[path])
         IN [b EXCEPT ![path] =
                jsonRoundTrip(merged(existing, errorPatch(patch, clk), clk))]

\* the bucket after the recordThreadError calls of `patches`, in order: each
\* call works on the bucket the call before it left
RECURSIVE recordedAll(_, _, _, _)
recordedAll(b, patches, outs, clk) ==
    IF Len(patches) = 0 THEN b
    ELSE CHOOSE after \in {recordedAll(b1, Tail(patches), Tail(outs), clk) :
                            b1 \in {recorded(b, Head(patches), clk, Head(outs))}} : TRUE

\* the recordThreadError calls of `patches`, each ending in some way; the
\* patches are built once, before the first call
Record(patches) ==
    \E built \in {patches} : \E outs \in [1..Len(built) -> StoreOutcomes] :
        \E n \in {Cardinality({k \in 1..Len(built) : outs[k] # "ok"})} :
           /\ n > 0 => enabled
           /\ faults + n <= MaxStoreFaults
           /\ faults' = faults + n
           /\ bucket' = recordedAll(bucket, built, outs, clock)

\* the patch of the catch block of sandboxFastPR
catchPatch(e) ==
    [lastError |-> clampMessage(e, StoredMessageMax),
     lastErrorJobId |-> JobId,
     lastErrorContext |-> Context("sandboxFastPR:throw", << >>)]

\* the patch an abort point records before it throws
abortPatch(what, context, logs) ==
    [lastError |-> Words(what),
     lastErrorJobId |-> JobId,
     lastErrorContext |-> context,
     lastErrorLogs |-> logs]

\* `throw e` inside the try block after the recordThreadError calls of
\* `before`: the catch block records e and throws it again
Throw(e, before) ==
    /\ Record(before \o <<catchPatch(e)>>)
    /\ thrown' = e
    /\ pc' = "failed"

\* a call whose promise neither resolves nor rejects: the job stays at its await
RejectedNeverSettles(what) ==
    /\ pc' = "pending"
    /\ UNCHANGED <<bucket, thrown, faults>>

\* runCmd rejected or an API call threw: nothing recorded before the catch
Rejected(what) == Throw(Words(what), << >>)

\* new Error(`${what}:\n${safeLogChunk(r.err || r.out)}`)
gitError(what, res) ==
    Error(what, << >>, << >>, safeLogChunk(errOrOut(res), DefaultLogMax))

\* the patch recorded when a git operation exited non-zero
gitAbortPatch(what, tag, res) ==
    abortPatch(what, Context(tag, << >>),
               clampString(safeLogChunk(errOrOut(res), StoredLogMax), StoredLogMax))

\* a git operation of the job failed:
\*   await recordThreadError(...); throw new Error(`${what}:\n${safeLogChunk(...)}`)
GitFailed(what, tag, res) == Throw(gitError(what, res), <<gitAbortPatch(what, tag, res)>>)

JInit ==
    /\ cfg \in [octokit : BOOLEAN, token : BOOLEAN, anthropic : BOOLEAN,
                runTests : BOOLEAN]
    /\ pc = "start"
    /\ plan = NoPlan
    /\ i = 1
    /\ vi = 1
    /\ ops = << >>
    /\ thrown = NoError
    /\ pr = NoPr
    /\ dirMade = FALSE
    /\ faults = 0

JIdle ==
    /\ cfg = [octokit |-> TRUE, token |-> TRUE, anthropic |-> TRUE, runTests |-> FALSE]
    /\ pc = "idle"
    /\ plan = NoPlan
    /\ i = 1
    /\ vi = 1
    /\ ops = << >>
    /\ thrown = NoError
    /\ pr = NoPr
    /\ dirMade = FALSE
    /\ faults = 0

\* what an action of the job leaves alone besides what it names
JFrame == UNCHANGED <<vvars, enabled, clock, call, nSaves, lastSave, cfg, xvars>>

\* sandboxFastPR entered without the guard on the model client
EnterModelUnguarded ==
    /\ pc = "start"
    /\ IF ~cfg.octokit THEN
            /\ thrown' = Words("GITHUB_TOKEN missing")
            /\ pc' = "failed"
       ELSE IF ~cfg.token THEN
            /\ thrown' = Words("GITHUB_TOKEN missing in container")
            /\ pc' = "failed"
       ELSE /\ thrown' = thrown
            /\ pc' = "repoGet"
    /\ UNCHANGED <<bucket, plan, i, vi, ops, pr, dirMade, faults>>
    /\ JFrame

\* sandboxFastPR is entered: the three guards, then octokit.repos.get is awaited
Enter ==
    /\ pc = "start"
    /\ IF ~cfg.octokit THEN
            /\ thrown' = Words("GITHUB_TOKEN missing")
            /\ pc' = "failed"
       ELSE IF ~cfg.token THEN
            /\ thrown' = Words("GITHUB_TOKEN missing in container")
            /\ pc' = "failed"
       ELSE IF ~cfg.anthropic THEN
            /\ thrown' = Words("ANTHROPIC_API_KEY missing")
            /\ pc' = "failed"
       ELSE /\ thrown' = thrown
            /\ pc' = "repoGet"
    /\ UNCHANGED <<bucket, plan, i, vi, ops, pr, dirMade, faults>>
    /\ JFrame

\* octokit.repos.get returns or throws (outside the try block); on return
\* the job id is drawn and the job directory made
ReposGet ==
    /\ pc = "repoGet"
    /\ \E ok \in BOOLEAN :
        IF ok THEN
            /\ ops' = Append(ops, Op("repos.get", 0, << >>, << >>, "zero"))
            /\ dirMade' = TRUE
            /\ pc' = "clone"
            /\ thrown' = thrown
        ELSE
            /\ ops' = Append(ops, Op("repos.get", 0, << >>, << >>, "none"))
            /\ dirMade' = dirMade
            /\ pc' = "failed"
            /\ thrown' = Words("repos.get failed")
    /\ UNCHANGED <<bucket, plan, i, vi, pr, faults>>
    /\ JFrame

\* a git operation whose non-zero exit aborts the job
GitStep(at, op, what, tag, next) ==
    /\ pc = at
    /\ \E res \in RunResults :
        /\ ops' = Append(ops, Op(op, 0, git, << >>, exitOf(res)))
        /\ IF res.code = SpawnError THEN Rejected("spawn failed")
           ELSE IF res.code # 0 THEN GitFailed(what, tag, res)
           ELSE /\ pc' = next
                /\ UNCHANGED <<bucket, thrown, faults>>
    /\ UNCHANGED <<plan, i, vi, pr, dirMade>>
    /\ JFrame

\* git clone --depth=1 --branch <default> <url> <jobDir>
Clone == GitStep("clone", "clone", "git clone failed", "git:clone", "cfgEmail")

\* git config user.email
ConfigEmail ==
    GitStep("cfgEmail", "config.email", "git config user.email failed",
            "git:config:email", "cfgName")

\* git config user.name
ConfigName ==
    GitStep("cfgName", "config.name", "git config user.name failed",
            "git:config:name", "cfgGet")

\* git config --get user.email: a mismatch only warns
ConfigGet ==
    /\ pc = "cfgGet"
    /\ \E res \in RunResults :
        /\ ops' = Append(ops, Op("config.get", 0, git, << >>, exitUnread(res)))
        /\ IF res.code = SpawnError THEN Rejected("spawn failed")
           ELSE /\ pc' = "checkout"
                /\ UNCHANGED <<bucket, thrown, faults>>
    /\ UNCHANGED <<plan, i, vi, pr, dirMade>>
    /\ JFrame

\* git checkout -b <branch>
Checkout == GitStep("checkout", "checkout", "git checkout failed", "git:checkout", "plan")


\* the raw text of the language model's n-th response
Raw(n) == Text(IF n = 1 THEN "raw1" ELSE "raw2", 5000)

\* where the job goes once the step loop is over:
\*   if (config.runTests && plan.verify?.commands?.length)
afterSteps(p) ==
    IF cfg.runTests /\ Len(p.verify.commands) > 0 THEN "verify" ELSE "status"

\* where the job goes with the plan in hand
afterPlan(p) == IF Len(p.steps) > 0 THEN "exec" ELSE afterSteps(p)

\* the patch recorded when a response yields no plan
parsePatch(what, tag, raw) ==
    [lastError |-> Words(what),
     lastErrorJobId |-> JobId,
     lastErrorContext |-> Context(tag, << >>),
     lastClaudeRawSnippet |-> clampString(raw, StoredSnippetMax)]

\* an entry of ops for a response of the language model that yields no plan
NoPlanOp(n) == [Op("model", n, << >>, << >>, "zero") EXCEPT !.blank = TRUE]

\* claudeSandboxPlan throwing at the first response that yields no plan
PlanFirstNoRepair ==
    /\ pc = "plan"
    /\ \/ /\ ops' = Append(ops, Op("model", 1, << >>, << >>, "none"))
          /\ Rejected("model call failed")
          /\ plan' = plan
       \/ \E json \in ParsedPlans :
            /\ ops' = Append(ops, Op("model", 1, << >>, << >>, "zero"))
            /\ plan' = clamps(json)
            /\ pc' = afterPlan(clamps(json))
            /\ UNCHANGED <<bucket, thrown, faults>>
       \/ /\ ops' = Append(ops, NoPlanOp(1))
          /\ Throw(Error("Claude plan JSON parse failed. Got:", << >>, << >>,
                         clampString(Raw(1), QuotedSnippetMax)),
                   <<parsePatch("Claude plan returned invalid JSON (first pass).",
                                "planning:parse:first_pass", Raw(1))>>)
          /\ plan' = plan
    /\ UNCHANGED <<i, vi, pr, dirMade>>
    /\ JFrame

\* claudeSandboxPlan up to the first response: a plan is returned (clamped),
\* or the first-pass failure is recorded and the repair request sent
PlanFirst ==
    /\ pc = "plan"
    /\ \/ /\ ops' = Append(ops, Op("model", 1, << >>, << >>, "none"))
          /\ Rejected("model call failed")
          /\ plan' = plan
       \/ \E json \in ParsedPlans :
            /\ ops' = Append(ops, Op("model", 1, << >>, << >>, "zero"))
            /\ plan' = clamps(json)
            /\ pc' = afterPlan(clamps(json))
            /\ UNCHANGED <<bucket, thrown, faults>>
       \/ /\ ops' = Append(ops, NoPlanOp(1))
          /\ Record(<<parsePatch("Claude plan returned invalid JSON (first pass).",
                                 "planning:parse:first_pass", Raw(1))>>)
          /\ pc' = "repair"
          /\ UNCHANGED <<plan, thrown>>
    /\ UNCHANGED <<i, vi, pr, dirMade>>
    /\ JFrame

\* the repair response: a plan is returned, or the repair-pass failure is
\* recorded and `Claude plan JSON parse failed. Got: ${raw.slice(0, 220)}`
\* thrown
PlanRepair ==
    /\ pc = "repair"
    /\ \/ /\ ops' = Append(ops, Op("model", 2, << >>, << >>, "none"))
          /\ Rejected("model call failed")
          /\ plan' = plan
       \/ \E json \in ParsedPlans :
            /\ ops' = Append(ops, Op("model", 2, << >>, << >>, "zero"))
            /\ plan' = clamps(json)
            /\ pc' = afterPlan(clamps(json))
            /\ UNCHANGED <<bucket, thrown, faults>>
       \/ /\ ops' = Append(ops, NoPlanOp(2))
          /\ Throw(Error("Claude plan JSON parse failed. Got:", << >>, << >>,
                         clampString(Raw(1), QuotedSnippetMax)),
                   <<parsePatch("Claude plan returned invalid JSON (repair pass).",
                                "planning:parse:repair_pass", Raw(2))>>)
          /\ plan' = plan
    /\ UNCHANGED <<i, vi, pr, dirMade>>
    /\ JFrame

\* `${cmd} ${args.join(' ')}` as a text
cmdLine(cmd, args) == Text("cmdline", Len(join(<<cmd>> \o args)))

\* the step loop with the exit code of a step not looked at
stepEndedIgnoringExit(cmd, args, res) ==
    IF res.code = SpawnError THEN /\ Rejected("spawn failed")
                                  /\ i' = i
    ELSE /\ i' = i + 1
         /\ pc' = IF i + 1 <= Len(plan.steps) THEN "exec" ELSE afterSteps(plan)
         /\ UNCHANGED <<bucket, thrown, faults>>

\* the step loop running a step again when it exited non-zero
stepEndedRetrying(cmd, args, res) ==
    IF res.code = SpawnError THEN /\ Rejected("spawn failed")
                                  /\ i' = i
    ELSE IF res.code # 0 THEN
         /\ i' = i
         /\ pc' = "exec"
         /\ UNCHANGED <<bucket, thrown, faults>>
    ELSE /\ i' = i + 1
         /\ pc' = IF i + 1 <= Len(plan.steps) THEN "exec" ELSE afterSteps(plan)
         /\ UNCHANGED <<bucket, thrown, faults>>

\* the step loop after runCmd of step i ended as res:
\*   if (res.code !== 0) { await recordThreadError(...); throw ... }
stepEnded(cmd, args, res) ==
    IF res.code = SpawnError THEN /\ Rejected("spawn failed")
                                  /\ i' = i
    ELSE IF res.code # 0 THEN
         /\ Throw(Error("Command failed:", cmd, args,
                        safeLogChunk(errOrOut(res), DefaultLogMax)),
                  <<abortPatch("Plan command failed", Context("plan:exec", cmd),
                        clampString(safeLogChunk(errOrOut(res), StoredLogMax),
                                    StoredLogMax))>>)
         /\ i' = i
    ELSE /\ i' = i + 1
         /\ pc' = IF i + 1 <= Len(plan.steps) THEN "exec" ELSE afterSteps(plan)
         /\ UNCHANGED <<bucket, thrown, faults>>

\* a step loop that validated the whole plan before running any of it: a
\* rejected step at position i or later aborts the job before step i is run
StepBlockedUpFront ==
    /\ pc = "exec"
    /\ \E k \in i..Len(plan.steps) :
          LET cmd == plan.steps[k].cmd
              args == plan.steps[k].args
          IN /\ ~commandAllowed(cmd, args)
             /\ Throw(Error("Blocked command from plan:", cmd, args, NoText),
                      <<abortPatch("Blocked command from plan",
                                   Context("plan:blocked_command", << >>),
                                   clampString(cmdLine(cmd, args), StoredCommandMax))>>)
    /\ UNCHANGED <<plan, i, vi, ops, pr, dirMade>>
    /\ JFrame

\* step i fails the validator: recorded and thrown, nothing spawned
StepBlocked ==
    /\ pc = "exec"
    /\ LET cmd == plan.steps[i].cmd
           args == plan.steps[i].args
       IN /\ ~commandAllowed(cmd, args)
          /\ Throw(Error("Blocked command from plan:", cmd, args, NoText),
                   <<abortPatch("Blocked command from plan",
                                Context("plan:blocked_command", << >>),
                                clampString(cmdLine(cmd, args), StoredCommandMax))>>)
    /\ UNCHANGED <<plan, i, vi, ops, pr, dirMade>>
    /\ JFrame

\* the step loop spawning step i whatever the validator says
StepRunUngated ==
    /\ pc = "exec"
    /\ LET cmd == plan.steps[i].cmd
           args == plan.steps[i].args
       IN \E res \in RunResults :
                /\ ops' = Append(ops, RunOp("step", i, cmd, args, res))
                /\ stepEnded(cmd, args, res)
    /\ UNCHANGED <<plan, vi, pr, dirMade>>
    /\ JFrame

\* step i passes the validator and is run in the job directory
StepRun ==
    /\ pc = "exec"
    /\ LET cmd == plan.steps[i].cmd
           args == plan.steps[i].args
       IN /\ commandAllowed(cmd, args)
          /\ \E res \in RunResults :
                /\ ops' = Append(ops, RunOp("step", i, cmd, args, res))
                /\ stepEnded(cmd, args, res)
    /\ UNCHANGED <<plan, vi, pr, dirMade>>
    /\ JFrame

\* const [cmd, ...args] = v
argvCmd(v) == IF Len(v) = 0 THEN << >> ELSE Head(v)
argvArgs(v) == IF Len(v) = 0 THEN << >> ELSE Tail(v)

\* verification command vi fails the validator: recorded and thrown
VerifyBlocked ==
    /\ pc = "verify"
    /\ LET cmd == argvCmd(plan.verify.commands[vi])
           args == argvArgs(plan.verify.commands[vi])
       IN /\ ~commandAllowed(cmd, args)
          /\ Throw(Error("Blocked verify command:", cmd, args, NoText),
                   <<abortPatch("Blocked verify command",
                                Context("verify:blocked_command", << >>),
                                clampString(cmdLine(cmd, args), StoredCommandMax))>>)
    /\ UNCHANGED <<plan, i, vi, ops, pr, dirMade>>
    /\ JFrame

\* the verification loop with a failed command aborting the job
verifyEndedAborting(cmd, args, res) ==
    IF res.code = SpawnError THEN /\ Rejected("spawn failed")
                                  /\ UNCHANGED <<plan, vi>>
    ELSE IF res.code # 0 THEN
         /\ Throw(Error("Verification failed:", cmd, args,
                        safeLogChunk(errOrOut(res), DefaultLogMax)),
                  <<abortPatch("Verification failed", Context("verify", cmd),
                        clampString(safeLogChunk(errOrOut(res), StoredLogMax),
                                    StoredLogMax))>>)
         /\ UNCHANGED <<plan, vi>>
    ELSE /\ vi' = vi + 1
         /\ pc' = IF vi + 1 <= Len(plan.verify.commands) THEN "verify" ELSE "status"
         /\ UNCHANGED <<plan, bucket, thrown, faults>>

\* the verification loop after runCmd of command vi ended as res: a
\* non-zero exit marks the plan, is recorded, and breaks out of the loop
verifyEnded(cmd, args, res) ==
    IF res.code = SpawnError THEN /\ Rejected("spawn failed")
                                  /\ UNCHANGED <<plan, vi>>
    ELSE IF res.code # 0 THEN
         /\ plan' = [plan EXCEPT !.verify.failed = TRUE,
                                 !.verify.logs = safeLogChunk(errOrOut(res), StoredLogMax)]
         /\ Record(<<abortPatch("Verification failed (non-blocking)", Context("verify", cmd),
                        clampString(safeLogChunk(errOrOut(res), StoredLogMax),
                                    StoredLogMax))>>)
         /\ pc' = "status"
         /\ UNCHANGED <<vi, thrown>>
    ELSE /\ vi' = vi + 1
         /\ pc' = IF vi + 1 <= Len(plan.verify.commands) THEN "verify" ELSE "status"
         /\ UNCHANGED <<plan, bucket, thrown, faults>>

\* the verification loop spawning command vi whatever the validator says
VerifyRunUngated ==
    /\ pc = "verify"
    /\ LET cmd == argvCmd(plan.verify.commands[vi])
           args == argvArgs(plan.verify.commands[vi])
       IN \E res \in RunResults :
                /\ ops' = Append(ops, RunOp("verify", vi, cmd, args, res))
                /\ verifyEnded(cmd, args, res)
    /\ UNCHANGED <<i, pr, dirMade>>
    /\ JFrame

\* verification command vi passes the validator and is run
VerifyRun ==
    /\ pc = "verify"
    /\ LET cmd == argvCmd(plan.verify.commands[vi])
           args == argvArgs(plan.verify.commands[vi])
       IN /\ commandAllowed(cmd, args)
          /\ \E res \in RunResults :
                /\ ops' = Append(ops, RunOp("verify", vi, cmd, args, res))
                /\ verifyEnded(cmd, args, res)
    /\ UNCHANGED <<i, pr, dirMade>>
    /\ JFrame


\* the change check with the status output not looked at
statusEndedUnchecked(res) ==
    IF res.code = SpawnError THEN Rejected("spawn failed")
    ELSE /\ pc' = "add"
         /\ UNCHANGED <<bucket, thrown, faults>>

\* after git status --porcelain ended as res: `if (!r.out.trim())` records
\* and throws; the exit code is not looked at
statusEnded(res) ==
    IF res.code = SpawnError THEN Rejected("spawn failed")
    ELSE IF trimEmpty(res.out) THEN
         Throw(Words("No changes produced in sandbox (git status clean)."),
               <<abortPatch("No changes produced in sandbox",
                          Context("git:status_clean", << >>),
                            Text("git status was clean after executing plan", 41))>>)
    ELSE /\ pc' = "add"
         /\ UNCHANGED <<bucket, thrown, faults>>

\* git status --porcelain
StatusCheck ==
    /\ pc = "status"
    /\ \E res \in RunResults :
        /\ ops' = Append(ops, [Op("status", 0, git, << >>, exitUnread(res)) EXCEPT
                                  !.blank = trimEmpty(res.out)])
        /\ statusEnded(res)
    /\ UNCHANGED <<plan, i, vi, pr, dirMade>>
    /\ JFrame

\* git add -A: its result is not looked at
AddAll ==
    /\ pc = "add"
    /\ \E res \in RunResults :
        /\ ops' = Append(ops, Op("add", 0, git, << >>, exitUnread(res)))
        /\ IF res.code = SpawnError THEN Rejected("spawn failed")
           ELSE /\ pc' = "commit"
                /\ UNCHANGED <<bucket, thrown, faults>>
    /\ UNCHANGED <<plan, i, vi, pr, dirMade>>
    /\ JFrame

\* git commit -m <message>
Commit == GitStep("commit", "commit", "git commit failed", "git:commit", "push")

\* git push with its exit code not looked at
PushUnchecked ==
    /\ pc = "push"
    /\ \E res \in RunResults :
        /\ ops' = Append(ops, Op("push", 0, git, << >>, exitUnread(res)))
        /\ IF res.code = SpawnError THEN Rejected("spawn failed")
           ELSE /\ pc' = "pr"
                /\ UNCHANGED <<bucket, thrown, faults>>
    /\ UNCHANGED <<plan, i, vi, pr, dirMade>>
    /\ JFrame

\* git push origin <branch>
Push == GitStep("push", "push", "git push failed", "git:push", "pr")

\* the patch that clears the error slot
clearPatch ==
    [lastError |-> Null,
     lastErrorJobId |-> Null,
     lastErrorContext |-> Null,
     lastErrorLogs |-> Null,
     lastClaudeRawSnippet |-> Null]

\* octokit.pulls.create with the body of buildPRBodyFromPlan; then the error
\* slot is cleared and the job returns
OpenPR ==
    /\ pc = "pr"
    /\ \/ /\ ops' = Append(ops, Op("pulls.create", 0, << >>, << >>, "none"))
          /\ Rejected("pulls.create failed")
          /\ pr' = pr
       \/ /\ ops' = Append(ops, Op("pulls.create", 0, << >>, << >>, "zero"))
          /\ pr' = [created |-> TRUE, warning |-> plan.verify.failed]
          /\ Record(<<clearPatch>>)
          /\ pc' = "done"
          /\ thrown' = thrown
    /\ UNCHANGED <<plan, i, vi, dirMade>>
    /\ JFrame

JNext ==
    \/ Enter
    \/ ReposGet
    \/ Clone
    \/ ConfigEmail
    \/ ConfigName
    \/ ConfigGet
    \/ Checkout
    \/ PlanFirst
    \/ PlanRepair
    \/ StepBlocked
    \/ StepRun
    \/ VerifyBlocked
    \/ VerifyRun
    \/ StatusCheck
    \/ AddAll
    \/ Commit
    \/ Push
    \/ OpenPR


(***************************************************************************)
(* Two callers of saveThread on the same thread key.  Each save is cut at  *)
(* its two awaits, the download and the upload; nothing orders the steps   *)
(* of one caller against the steps of the other.                           *)
(***************************************************************************)
Racers == {1, 2}

\* the caller that is not c
Rival(c) == 3 - c

\* the thread object before the two saves: none, or one written earlier
PriorObjects ==
    {Absent,
     [f \in {"lastTask", "updatedAt", "version"} |->
        IF f = "lastTask" THEN Str("t")
        ELSE IF f = "updatedAt" THEN nowIso(1) ELSE Num(SchemaVersion)]}

\* the patches the two callers pass: data fields only
RacePatches == {x \in DataPatches : \A f \in DOMAIN x : x[f] \in PatchFieldValues[f]}

RInit ==
    /\ enabled = TRUE
    /\ bucket \in {[p \in ObjPaths |-> IF p = ThreadPath THEN o ELSE Absent] :
                        o \in PriorObjects}
    /\ clock = 1
    /\ call = IdleCall
    /\ nSaves = 0
    /\ lastSave = NoSave
    /\ racers = [c \in Racers |-> IdleCall]
    /\ wrote = << >>

RIdle ==
    /\ racers = [c \in Racers |-> IdleCall]
    /\ wrote = << >>

\* what an action of the two callers leaves alone besides bucket and rvars
RFrame == UNCHANGED <<enabled, clock, call, nSaves, lastSave, vvars, jvars, kvars, hvars,
                      gvars, tvars, yvars>>

\* caller c enters saveThread(threadKey, patch) and requests the download
RaceEnter(c) ==
    /\ racers[c].pc = "idle"
    /\ \E patch \in RacePatches :
        racers' = [racers EXCEPT ![c] =
                      [pc |-> "reading", path |-> brainObjectPath("threads", ThreadKey),
                       patch |-> patch]]
    /\ UNCHANGED <<bucket, wrote>>
    /\ RFrame

\* the download of caller c returns; merged is built from what it returned
RaceRead(c) ==
    /\ racers[c].pc = "reading"
    /\ \E read \in gcsReadJsonResults(racers[c].path) :
        racers' = [racers EXCEPT ![c] =
                      [pc |-> "writing", path |-> racers[c].path,
                       patch |-> racers[c].patch,
                       prior |-> bucket[racers[c].path],
                       readOk |-> (read = bucket[racers[c].path]),
                       sawWrites |-> Len(wrote),
                       merged |-> merged(orEmpty(read), racers[c].patch, clock)]]
    /\ UNCHANGED <<bucket, wrote>>
    /\ RFrame

\* the upload of caller c with the patch merged into the object at upload time
RaceWriteMerging(c) ==
    /\ racers[c].pc = "writing"
    /\ \E ok \in BOOLEAN :
        /\ bucket' = IF ok
                     THEN [bucket EXCEPT ![racers[c].path] =
                             jsonRoundTrip(merged(orEmpty(bucket[racers[c].path]),
                                                  racers[c].patch, clock))]
                     ELSE bucket
        /\ wrote' = IF ok THEN Append(wrote, c) ELSE wrote
        /\ racers' = [racers EXCEPT ![c] = [racers[c] EXCEPT !.pc = "ended"]]
    /\ RFrame

\* the upload of caller c ends: the object becomes the text of the merged
\* value built when its download returned, or the upload fails
RaceWrite(c) ==
    /\ racers[c].pc = "writing"
    /\ \E ok \in BOOLEAN :
        /\ bucket' = IF ok
                     THEN [bucket EXCEPT ![racers[c].path] = jsonRoundTrip(racers[c].merged)]
                     ELSE bucket
        /\ wrote' = IF ok THEN Append(wrote, c) ELSE wrote
        /\ racers' = [racers EXCEPT ![c] = [racers[c] EXCEPT !.pc = "ended"]]
    /\ RFrame

RNext ==
    \E c \in Racers :
        \/ RaceEnter(c)
        \/ RaceRead(c)
        \/ RaceWrite(c)

(***************************************************************************)
(* Object paths of two logical keys of one scope kind.                     *)
(***************************************************************************)
\* owner and repository names as parseOwnerRepo accepts them: [a-z0-9_.-]+
Names == {<<"a">>, <<"c">>, <<"a", "_", "b">>, <<"b", "_", "c">>, <<"a", ".", "b">>,
          <<"b", ".", "c">>}

\* thread keys `${team}:${channel}:${threadTs}`
ThreadKeys ==
    {<<t, ":", c, ":", "1", ".", n>> : t \in {"T", "U"}, c \in {"C", "D"}, n \in {"2", "3"}}

\* the logical keys of a scope kind
LogicalKeys(kind) ==
    IF kind = "threads" THEN {[key |-> k] : k \in ThreadKeys}
    ELSE {[owner |-> o, repo |-> r] : o \in Names, r \in Names}

\* the object path loadThread / saveThread or loadRepo / saveRepo compute
objPath(kind, k) ==
    IF kind = "threads" THEN brainObjectPath("threads", k.key)
    ELSE brainObjectPath("repos", repoKey(k.owner, k.repo))

KInit ==
    keyRun \in {[kind |-> kind, a |-> a, b |-> b, paths |-> << >>] :
                    kind \in {"threads"}, a \in LogicalKeys("threads"),
                    b \in LogicalKeys("threads")}
               \cup {[kind |-> kind, a |-> a, b |-> b, paths |-> << >>] :
                    kind \in {"repos"}, a \in LogicalKeys("repos"),
                    b \in LogicalKeys("repos")}

KIdle == keyRun = [kind |-> "threads", a |-> [key |-> ThreadKey], b |-> [key |-> ThreadKey],
                   paths |-> << >>]

\* the two paths are computed
KeyPaths ==
    /\ keyRun.paths = << >>
    /\ keyRun' = [keyRun EXCEPT !.paths = <<objPath(keyRun.kind, keyRun.a),
                                             objPath(keyRun.kind, keyRun.b)>>]
    /\ UNCHANGED <<vvars, svars, jvars, rvars, hvars, gvars, tvars, yvars>>

KNext == KeyPaths

(***************************************************************************)
(* The text functions of plan.js: extractJsonFromText, safeJsonParse and   *)
(* parsePlanJson, on model responses spelled as sequences of characters.   *)
(***************************************************************************)
\* the grave accent (one element of a text; a string of the module cannot
\* spell it)
Backtick == "bt"
Fence == <<Backtick, Backtick, Backtick>>

\* the white space of String.prototype.trim, \s and JSON in the texts drawn
Whitespace == {" ", "\n", "\t"}

RECURSIVE trimStart(_)
trimStart(s) ==
    IF Len(s) > 0 /\ Head(s) \in Whitespace THEN trimStart(Tail(s)) ELSE s

RECURSIVE trimEnd(_)
trimEnd(s) ==
    IF Len(s) > 0 /\ s[Len(s)] \in Whitespace
    THEN trimEnd(SubSeq(s, 1, Len(s) - 1))
    ELSE s

\* String.prototype.trim
trim(s) == trimEnd(trimStart(s))

\* the text from position p on
from(s, p) == SubSeq(s, p, Len(s))

startsWith(s, w) == Len(s) >= Len(w) /\ SubSeq(s, 1, Len(w)) = w

\* the positions at which w occurs in s
occurrences(s, w) == {p \in 1..(Len(s) - Len(w) + 1) : SubSeq(s, p, p + Len(w) - 1) = w}

\* String.prototype.indexOf and lastIndexOf, counted from 1, 0 for none
indexOf(s, w) ==
    IF occurrences(s, w) = {} THEN 0
    ELSE CHOOSE p \in occurrences(s, w) : \A q \in occurrences(s, w) : p <= q
lastIndexOf(s, w) ==
    IF occurrences(s, w) = {} THEN 0
    ELSE CHOOSE p \in occurrences(s, w) : \A q \in occurrences(s, w) : p >= q

\* s.replace(/^\s*```(?:json)?\s*/i, '')
stripOpeningFence(s) ==
    LET a == trimStart(s)
        b == from(a, Len(Fence) + 1)
    IN IF ~startsWith(a, Fence) THEN s
       ELSE IF startsWith(toLowerCase(b), <<"j", "s", "o", "n">>)
            THEN trimStart(from(b, 5))
            ELSE trimStart(b)

extractJsonFromText(raw) ==
    LET stripped == trim(stripOpeningFence(trim(raw)))
        closingFence == indexOf(stripped, Fence)
        content == IF closingFence # 0
                   THEN trim(SubSeq(stripped, 1, closingFence - 1))
                   ELSE stripped
        start == indexOf(content, <<"{">>)
        end == lastIndexOf(content, <<"}">>)
    IN IF start # 0 /\ end # 0 /\ end > start THEN trim(SubSeq(content, start, end))
       ELSE IF start # 0 THEN trim(from(content, start))
       ELSE content

\* JSON values: null is Null, an array is Arr(..), and
JsonString(chars) == [chars |-> chars]
JsonBoolean(b) == [bool |-> b]
\* an object, as the function from its keys to their values
JsonObject(members) == [members |-> members]
isObject(v) == "members" \in DOMAIN v

\* the result of one parsing step: a value and the position after it, or a
\* syntax error
Parsed(v, at) == [ok |-> TRUE, val |-> v, at |-> at]
SyntaxError == [ok |-> FALSE]

RECURSIVE skipWhitespace(_, _)
skipWhitespace(s, p) ==
    IF p <= Len(s) /\ s[p] \in Whitespace THEN skipWhitespace(s, p + 1) ELSE p

\* the character a JSON escape stands for (the texts drawn hold no \u)
Unescaped(c) ==
    CASE c = "n" -> "\n"
      [] c = "t" -> "\t"
      [] OTHER -> c

\* a JSON string from the position after its opening quote
RECURSIVE parseString(_, _, _)
parseString(s, p, acc) ==
    IF p > Len(s) THEN SyntaxError
    ELSE IF s[p] = "\"" THEN Parsed(JsonString(acc), p + 1)
    ELSE IF s[p] \in {"\n", "\t"} THEN SyntaxError
    ELSE IF s[p] = "\\"
         THEN IF p + 1 <= Len(s) /\ s[p + 1] \in {"\"", "\\", "/", "n", "t"}
              THEN parseString(s, p + 2, Append(acc, Unescaped(s[p + 1])))
              ELSE SyntaxError
    ELSE parseString(s, p + 1, Append(acc, s[p]))

RECURSIVE parseValue(_, _)
RECURSIVE parseElements(_, _, _)
RECURSIVE parseMembers(_, _, _)

\* the elements of an array from the position of an element
parseElements(s, p, acc) ==
    LET v == parseValue(s, p)
    IN IF ~v.ok THEN SyntaxError
       ELSE LET q == skipWhitespace(s, v.at)
            IN IF q > Len(s) THEN SyntaxError
               ELSE IF s[q] = "," THEN parseElements(s, q + 1, Append(acc, v.val))
               ELSE IF s[q] = "]" THEN Parsed(Arr(Append(acc, v.val)), q + 1)
               ELSE SyntaxError

\* the members of an object from the position of a key; a key named twice
\* keeps its last value
parseMembers(s, p, acc) ==
    LET q == skipWhitespace(s, p)
    IN IF q > Len(s) \/ s[q] # "\"" THEN SyntaxError
       ELSE LET k == parseString(s, q + 1, << >>)
            IN IF ~k.ok THEN SyntaxError
               ELSE LET r == skipWhitespace(s, k.at)
                    IN IF r > Len(s) \/ s[r] # ":" THEN SyntaxError
                       ELSE LET v == parseValue(s, r + 1)
                            IN IF ~v.ok THEN SyntaxError
                               ELSE LET t == skipWhitespace(s, v.at)
                                        put == (k.val.chars :> v.val) @@ acc
                                    IN IF t > Len(s) THEN SyntaxError
                                       ELSE IF s[t] = "," THEN parseMembers(s, t + 1, put)
                                       ELSE IF s[t] = "}"
                                            THEN Parsed(JsonObject(put), t + 1)
                                       ELSE SyntaxError

\* a JSON value from position p (the texts drawn hold no numbers)
parseValue(s, p) ==
    LET q == skipWhitespace(s, p)
    IN IF q > Len(s) THEN SyntaxError
       ELSE IF s[q] = "\"" THEN parseString(s, q + 1, << >>)
       ELSE IF s[q] = "["
            THEN LET r == skipWhitespace(s, q + 1)
                 IN IF r <= Len(s) /\ s[r] = "]" THEN Parsed(Arr(<< >>), r + 1)
                    ELSE parseElements(s, r, << >>)
       ELSE IF s[q] = "{"
            THEN LET r == skipWhitespace(s, q + 1)
                 IN IF r <= Len(s) /\ s[r] = "}"
                    THEN Parsed(JsonObject([k \in {} |-> Null]), r + 1)
                    ELSE parseMembers(s, r, [k \in {} |-> Null])
       ELSE IF startsWith(from(s, q), <<"n", "u", "l", "l">>) THEN Parsed(Null, q + 4)
       ELSE IF startsWith(from(s, q), <<"t", "r", "u", "e">>) THEN Parsed(JsonBoolean(TRUE), q + 4)
       ELSE IF startsWith(from(s, q), <<"f", "a", "l", "s", "e">>) THEN Parsed(JsonBoolean(FALSE), q + 5)
       ELSE SyntaxError

\* try { return JSON.parse(text); } catch { return null; }
safeJsonParse(t) ==
    LET v == parseValue(t, 1)
    IN IF v.ok /\ skipWhitespace(t, v.at) = Len(t) + 1 THEN v.val ELSE Null

\* a JSON value is truthy
truthy(v) == v \notin {Null, JsonBoolean(FALSE), JsonString(<< >>)}

prTitle == <<"p", "r", "T", "i", "t", "l", "e">>
prBody == <<"p", "r", "B", "o", "d", "y">>
summaryBullets == <<"s", "u", "m", "m", "a", "r", "y", "B", "u", "l", "l", "e", "t", "s">>
steps == <<"s", "t", "e", "p", "s">>
verify == <<"v", "e", "r", "i", "f", "y">>
commands == <<"c", "o", "m", "m", "a", "n", "d", "s">>

\* json && json.prTitle != null && Array.isArray(json.steps)
repaired(json) ==
    /\ truthy(json)
    /\ isObject(json)
    /\ prTitle \in DOMAIN json.members
    /\ json.members[prTitle] # Null
    /\ steps \in DOMAIN json.members
    /\ isArray(json.members[steps])

repairSuffixes == <<<<"\"", "}">>, <<"\"", "}">>, <<"}">>, <<"]", "\"", "}">>, <<"]", "}">>>>

\* the loop over repairSuffixes from the k-th on
RECURSIVE repairFrom(_, _)
repairFrom(t, k) ==
    IF k > Len(repairSuffixes) THEN Null
    ELSE IF repaired(safeJsonParse(t \o repairSuffixes[k]))
         THEN safeJsonParse(t \o repairSuffixes[k])
         ELSE repairFrom(t, k + 1)

parsePlanJson(e) ==
    IF truthy(safeJsonParse(e)) THEN safeJsonParse(e)
    ELSE IF Len(trim(e)) < 20 THEN Null
    ELSE repairFrom(trim(e), 1)

\* the text of a JSON string, array, object member and object
Quoted(w) == <<"\"">> \o w \o <<"\"">>
RECURSIVE Listed(_)
Listed(texts) ==
    IF Len(texts) = 0 THEN << >>
    ELSE IF Len(texts) = 1 THEN texts[1]
    ELSE texts[1] \o <<",">> \o Listed(Tail(texts))
ArrayText(texts) == <<"[">> \o Listed(texts) \o <<"]">>
ObjectText(texts) == <<"{">> \o Listed(texts) \o <<"}">>
Member(key, value) == Quoted(key) \o <<":">> \o value

\* plan JSON texts in the field order of the prompt: a title, a body, one
\* summary bullet, the steps and the verification commands
PlanText(body, stepTexts, lastArg) ==
    ObjectText(<<Member(prTitle, Quoted(<<"f", "i", "x">>)),
                 Member(prBody, Quoted(body)),
                 Member(summaryBullets, ArrayText(<<Quoted(<<"a">>)>>)),
                 Member(steps, ArrayText(stepTexts)),
                 Member(verify,
                        ObjectText(<<Member(commands,
                            ArrayText(<<ArrayText(<<Quoted(npm), Quoted(lastArg)>>)>>))>>))>>)

InstallStep ==
    ObjectText(<<Member(<<"c", "m", "d">>, Quoted(npm)), Member(<<"a", "r", "g", "s">>, ArrayText(<<Quoted(<<"i">>)>>))>>)

\* a plain plan, and a plan whose body quotes a command between fences
PlainPlan == PlanText(<<"o", "k">>, <<InstallStep>>, <<"t", "e", "s", "t">>)
FencedBodyPlan == PlanText(<<"r", "u", "n", " ", Backtick, Backtick, Backtick, "n", "p", "m", " ", "t", "e", "s", "t", Backtick, Backtick, Backtick>>, <<InstallStep>>, <<"t", "e", "s", "t">>)
\* a plan without steps, and a plan whose last string holds braces
NoStepsPlan == PlanText(<<"o", "k">>, << >>, <<"t", "e", "s", "t">>)
BracesPlan == PlanText(<<"o", "k">>, <<InstallStep>>, <<"f", "(", "{", "1", "}", ")">>)

\* the length of the tail `"]]}}` that closes a plan text after its last string
ClosingLen == Len(<<"\"", "]", "]", "}", "}">>)

\* responses that wrap a plan in a fenced block and go on with commentary
FencedTexts ==
    {[kind |-> "fenced",
      raw |-> open \o sep \o body \o <<"\n">> \o Fence \o tail,
      body |-> body,
      cut |-> 0] :
        open \in {Fence \o <<"j", "s", "o", "n">>, Fence, Fence \o <<"J", "S", "O", "N">>},
        sep \in {<<"\n">>, <<" ">>},
        body \in {PlainPlan, FencedBodyPlan},
        tail \in {<<"\n", "D", "o", "n", "e", ".">>, <<"\n", "S", "e", "e", " ", "t", "h", "e", " ", "{", "p", "l", "a", "n", "}", " ", "a", "b", "o", "v", "e", ".">>, <<" ", "R", "u", "n", " ", Backtick, Backtick, Backtick, "n", "p", "m", " ", "i", Backtick, Backtick, Backtick, " ", "f", "i", "r", "s", "t", ".">>}}

\* responses cut off inside the last string of the last field, verify, with
\* 1 to 3 characters of the string lost, raw or after an opening fence
TruncatedTexts ==
    {[kind |-> "truncated",
      raw |-> open \o SubSeq(body, 1, Len(body) - ClosingLen - lost),
      body |-> body,
      cut |-> lost] :
        open \in {<< >>, Fence \o <<"j", "s", "o", "n">> \o <<"\n">>},
        body \in {PlainPlan, NoStepsPlan, BracesPlan},
        lost \in 1..3}

\* responses that are valid JSON but not a plan: an empty object, an empty
\* array, an object with a note only, an object whose steps is a string
SchemalessTexts ==
    {[kind |-> "schemaless", raw |-> t, body |-> t, cut |-> 0] :
        t \in {<<"{", "}">>,
               <<"[", "]">>,
               ObjectText(<<Member(<<"n", "o", "t", "e">>, Quoted(<<"s", "o", "r", "r", "y">>))>>),
               ObjectText(<<Member(steps, Quoted(<<"n", "o", "n", "e">>))>>)}}

\* responses that explain themselves before a complete fenced block
PrefacedTexts ==
    {[kind |-> "prefaced",
      raw |-> preface \o open \o <<"\n">> \o body \o <<"\n">> \o Fence \o tail,
      body |-> body,
      cut |-> 0] :
        preface \in {<<"H", "e", "r", "e", " ", "i", "s", " ", "t", "h", "e", " ", "p", "l", "a", "n", ":", "\n">>, <<"P", "l", "a", "n", " ", "{", "v", "1", "}", " ", "f", "o", "l", "l", "o", "w", "s", ".", "\n", "\n">>},
        open \in {Fence \o <<"j", "s", "o", "n">>, Fence},
        body \in {PlainPlan, NoStepsPlan},
        tail \in {<< >>, <<"\n", "D", "o", "n", "e", ".">>}}

\* the fields of a plan text that come before its last field
BeforeVerify == {prTitle, prBody, summaryBullets, steps}

TInit ==
    /\ text \in FencedTexts \cup TruncatedTexts \cup SchemalessTexts \cup PrefacedTexts
    /\ extracted = {}
    /\ parsed = {}

TIdle ==
    /\ text = [kind |-> "none", raw |-> << >>, body |-> << >>, cut |-> 0]
    /\ extracted = {}
    /\ parsed = {}

\* const extracted = extractJsonFromText(raw)
Extract ==
    /\ extracted = {}
    /\ extracted' = {extractJsonFromText(text.raw)}
    /\ UNCHANGED <<text, parsed, vvars, svars, jvars, rvars, kvars, hvars, gvars, yvars>>

\* let json = parsePlanJson(extracted)
Parse ==
    /\ extracted # {}
    /\ parsed = {}
    /\ parsed' = {parsePlanJson(e) : e \in extracted}
    /\ UNCHANGED <<text, extracted, vvars, svars, jvars, rvars, kvars, hvars, gvars, yvars>>

TNext == Extract \/ Parse

(***************************************************************************)
(* Job attempts: makeJobId (util/proc.js), the job directory and the       *)
(* branch name of sandboxFastPR, for two attempts that may be alive at the *)
(* same time.                                                              *)
(***************************************************************************)
Attempts == {1, 2}

\* owners and repositories a task block may name
Owners == {<<"a">>, <<"a", "-", "b">>}
RepoNames == {<<"c">>, <<"b", "-", "c">>}

\* crypto.randomBytes(6).toString('hex'): hex strings of one length, of
\* which the model draws three
HexIds == {<<"0", "a">>, <<"0", "b">>, <<"f", "f">>}

\* Date.now().toString(36)
Stamps36 == {<<"k">>, <<"l">>}

\* config.workdir
Workdir == <<"/", "w">>

\* the job directory with the job id left out of its name
jobDirWithoutId(owner, repo, jobId) ==
    Workdir \o <<"/">> \o owner \o <<"-">> \o repo

\* path.join(root, `${owner}-${repo}-${jobId}`)
jobDir(owner, repo, jobId) ==
    Workdir \o <<"/">> \o owner \o <<"-">> \o repo \o <<"-">> \o jobId

\* `openclaw/sandbox-${Date.now().toString(36)}-${jobId}`
branchName(stamp, jobId) ==
    <<"o", "p", "e", "n", "c", "l", "a", "w", "/", "s", "a", "n", "d", "b", "o", "x", "-">>
    \o stamp \o <<"-">> \o jobId

NoAttempt == [state |-> "none"]

AInit == attempts = [c \in Attempts |-> NoAttempt]
AIdle == attempts = [c \in Attempts |-> NoAttempt]

\* an attempt draws its job id, makes its directory and, at some later
\* instant, names its branch
JobStart(c) ==
    /\ attempts[c].state = "none"
    /\ \E owner \in Owners, repo \in RepoNames, jobId \in HexIds, stamp \in Stamps36 :
        attempts' = [attempts EXCEPT ![c] =
            [state |-> "alive", owner |-> owner, repo |-> repo, jobId |-> jobId,
             dir |-> jobDir(owner, repo, jobId), branch |-> branchName(stamp, jobId)]]
    /\ UNCHANGED <<vvars, svars, jvars, rvars, kvars, hvars, gvars, tvars, lvars, uvars>>

\* sandboxFastPR returns or throws
JobEnd(c) ==
    /\ attempts[c].state = "alive"
    /\ attempts' = [attempts EXCEPT ![c].state = "ended"]
    /\ UNCHANGED <<vvars, svars, jvars, rvars, kvars, hvars, gvars, tvars, lvars, uvars>>

ANext == \E c \in Attempts : JobStart(c) \/ JobEnd(c)

(***************************************************************************)
(* The rate limiter (rateLimitOk) as the app_mention handler calls it,     *)
(* with the key `${event.user}:${event.channel}`.                          *)
(***************************************************************************)
RATE_LIMIT_WINDOW_MS == 30000
RATE_LIMIT_MAX == 6

Users == {"U1"}
Channels == {"C1", "C2"}

\* const userKey = `${event.user}:${event.channel}`
userKey(user, channel) == <<user, channel>>
UserKeys == {userKey(u, c) : u \in Users, c \in Channels}

\* the instants at which Date.now() is read: the start, the last instant of
\* the window that starts at 0, and the first instant after it
Instants == {0, 30000, 30001}

\* !cur || now - cur.ts > RATE_LIMIT_WINDOW_MS
windowOver(cur, t) == cur = Absent \/ t - cur.ts > RATE_LIMIT_WINDOW_MS

\* the value rateLimitOk(key) returns at instant t
rateLimitOk(rs, key, t) ==
    windowOver(rs[key], t) \/ rs[key].count < RATE_LIMIT_MAX

\* rateState after rateLimitOk(key) at instant t
rateStateAfter(rs, key, t) ==
    IF windowOver(rs[key], t) THEN [rs EXCEPT ![key] = [ts |-> t, count |-> 1]]
    ELSE IF rs[key].count >= RATE_LIMIT_MAX THEN rs
    ELSE [rs EXCEPT ![key].count = @ + 1]

LInit ==
    /\ rateState = [k \in UserKeys |-> Absent]
    /\ nowMs = 0
    /\ admitted = [u \in Users |-> << >>]
    /\ answer = ""

LIdle ==
    /\ rateState = [k \in UserKeys |-> Absent]
    /\ nowMs = 0
    /\ admitted = [u \in Users |-> << >>]
    /\ answer = ""

\* a mention of `user` in `channel`: let through to command handling, or
\* answered with the rate-limit message
Mention(user, channel) ==
    /\ rateState' = rateStateAfter(rateState, userKey(user, channel), nowMs)
    /\ IF rateLimitOk(rateState, userKey(user, channel), nowMs)
       THEN /\ admitted' = [admitted EXCEPT ![user] = Append(@, nowMs)]
            /\ answer' = "handled"
       ELSE /\ admitted' = admitted
            /\ answer' = "Rate limit: try again in ~30 seconds"
    /\ UNCHANGED <<nowMs, vvars, svars, jvars, rvars, kvars, hvars, gvars, tvars, avars,
                   uvars>>

\* time passes to the next instant
Later ==
    /\ \E t \in Instants :
        /\ t > nowMs
        /\ \A s \in Instants : s > nowMs => t <= s
        /\ nowMs' = t
    /\ UNCHANGED <<rateState, admitted, answer, vvars, svars, jvars, rvars, kvars, hvars,
                   gvars, tvars, avars, uvars>>

LNext == Later \/ \E u \in Users, c \in Channels : Mention(u, c)

(***************************************************************************)
(* The clamps of claudeSandboxPlan on the values parsePlanJson may return: *)
(* objects whose steps and verify are missing, of another type, or arrays  *)
(* longer than the clamps allow.                                           *)
(***************************************************************************)
Digits == <<"0", "1", "2", "3", "4", "5", "6", "7", "8", "9">>

\* the k-th step of a long plan, told apart by its argument
NumberedStep(k) == Step(node, << <<Digits[(k \div 10) + 1], Digits[(k % 10) + 1]>> >>)
\* the k-th verification command of a long plan
NumberedCommand(k) == <<npm, <<Digits[(k \div 10) + 1], Digits[(k % 10) + 1]>> >>

\* what a parsed JSON may hold as steps and as verify.commands
RawSteps ==
    {Undefined, Null, Str("x")}
    \cup {Arr([k \in 1..n |-> NumberedStep(k)]) : n \in 0..MaxRawSteps}
RawCommands ==
    {Undefined, Str("x")}
    \cup {Arr([k \in 1..n |-> NumberedCommand(k)]) : n \in 0..MaxRawVerify}
RawVerifies ==
    {Undefined, Null, Str("x")}
    \cup {[commands |-> c, failed |-> FALSE, logs |-> NoText] : c \in RawCommands}

GInit ==
    /\ rawJson \in {[steps |-> st, verify |-> v, none |-> FALSE] :
                        st \in RawSteps, v \in RawVerifies}
    /\ clamped = {}

GIdle ==
    /\ rawJson = [steps |-> Undefined, verify |-> Undefined, none |-> FALSE]
    /\ clamped = {}

\* the clamps are applied and the plan returned, or they throw
Clamp ==
    /\ clamped = {}
    /\ clamped' = {IF clampsThrow(rawJson) THEN TypeError ELSE clamps(rawJson)}
    /\ UNCHANGED <<rawJson, vvars, svars, jvars, rvars, kvars, hvars, tvars, yvars>>

GNext == Clamp

(***************************************************************************)
(* The app_mention handler of app.js on a mention that holds a task block: *)
(* loadThread, the guards, loadRepo, sandboxFastPR, then saveThread and    *)
(* saveRepo and the reply, or the catch block and its reply.               *)
(***************************************************************************)
\* nothing loaded yet
NotLoaded == [unloaded |-> TRUE]

\* the thread object before the mention: an earlier mention in the thread
\* named a repository
ThreadObjects ==
    {[f \in {"lastRepo", "updatedAt", "version"} |->
        IF f = "lastRepo" THEN Str("o/r")
        ELSE IF f = "updatedAt" THEN nowIso(1) ELSE Num(SchemaVersion)]}

\* what loadThread / loadRepo return: null with the store disabled, else
\* what gcsReadJson returns
loadResults(path) == IF ~enabled THEN {Absent} ELSE gcsReadJsonResults(path)

\* the bucket after saveThread / saveRepo of `patch` on `path` ended as `o`,
\* without the `if (!enabled) return`
savedUnguarded(b, path, patch, clk, o) ==
    IF o = "writeFail" THEN b
    ELSE LET existing == IF o = "readFail" THEN EmptyObj ELSE orEmpty(b[path])
         IN [b EXCEPT ![path] = jsonRoundTrip(merged(existing, patch, clk))]

\* the bucket after saveThread / saveRepo of `patch` on `path` ended as `o`
saved(b, path, patch, clk, o) ==
    IF ~enabled \/ o = "writeFail" THEN b
    ELSE LET existing == IF o = "readFail" THEN EmptyObj ELSE orEmpty(b[path])
         IN [b EXCEPT ![path] = jsonRoundTrip(merged(existing, patch, clk))]

\* the save raised: the store is enabled and the upload failed
raised(o) == enabled /\ o = "writeFail"

HInit ==
    /\ hpc = "mention"
    /\ hThread = NotLoaded
    /\ hRepoMem = NotLoaded
    /\ said = ""
    /\ hRepoRef = Null
    /\ hDone = << >>
    /\ enabled \in BOOLEAN
    /\ bucket \in {[p \in ObjPaths |-> IF p = ThreadPath THEN o ELSE Absent] :
                        o \in ThreadObjects}
    /\ clock = 1
    /\ call = IdleCall
    /\ nSaves = 0
    /\ lastSave = NoSave
    /\ cfg \in [octokit : BOOLEAN, token : {TRUE}, anthropic : BOOLEAN,
                runTests : BOOLEAN]
    /\ pc = "idle"
    /\ plan = NoPlan
    /\ i = 1
    /\ vi = 1
    /\ ops = << >>
    /\ thrown = NoError
    /\ pr = NoPr
    /\ dirMade = FALSE
    /\ faults = 0

HIdle ==
    /\ hpc = "none"
    /\ hThread = NotLoaded
    /\ hRepoMem = NotLoaded
    /\ said = ""
    /\ hRepoRef = Null
    /\ hDone = << >>

\* what an action of the handler leaves alone besides what it names
HFrame == UNCHANGED <<vvars, enabled, clock, call, nSaves, lastSave, cfg, rvars, kvars,
                      gvars, tvars, yvars, plan, i, vi, ops, thrown, pr, dirMade>>

\* a load that returns null for an object that is there is a failed read
loadFaults(path, res) == IF enabled /\ res # bucket[path] THEN 1 ELSE 0

\* parseTaskBlock(cleaned).repoRef: the repo line names o/r or is left out
RepoRefs == {Null, Str("o/r")}

\* the mention arrives: threadState = await brain.loadThread(threadKey)
AppMention ==
    /\ hpc = "mention"
    /\ \E res \in loadResults(ThreadPath) :
        /\ faults + loadFaults(ThreadPath, res) <= MaxStoreFaults
        /\ faults' = faults + loadFaults(ThreadPath, res)
        /\ hThread' = res
    /\ hRepoRef' \in RepoRefs
    /\ hpc' = "task"
    /\ UNCHANGED <<bucket, pc, hRepoMem, said, hDone>>
    /\ HFrame

\* threadState?.lastRepo names a repository
remembered(threadState) ==
    /\ threadState # Absent
    /\ Get(threadState, "lastRepo") \notin {Undefined, Null}

\* the task block: the guards, the repository (explicit or remembered),
\* repoMem = await brain.loadRepo(owner, repo), then sandboxFastPR is called.
\* The job is followed for the first mention of a thread; a later mention is
\* followed up to the call.
TaskBlock ==
    /\ hpc = "task"
    /\ LET explicit == hRepoRef # Null IN
        IF ~cfg.octokit THEN
            /\ said' = "GitHub is not configured"
            /\ hpc' = "replied"
            /\ UNCHANGED <<pc, hRepoMem, faults>>
        ELSE IF ~cfg.anthropic THEN
            /\ said' = "Claude is not configured"
            /\ hpc' = "replied"
            /\ UNCHANGED <<pc, hRepoMem, faults>>
        ELSE IF ~explicit /\ ~remembered(hThread) THEN
            /\ said' = "I need a repo."
            /\ hpc' = "replied"
            /\ UNCHANGED <<pc, hRepoMem, faults>>
        ELSE
            /\ \E res \in loadResults(RepoPath) :
                /\ faults + loadFaults(RepoPath, res) <= MaxStoreFaults
                /\ faults' = faults + loadFaults(RepoPath, res)
                /\ hRepoMem' = res
            /\ said' = "Starting sandbox dev job"
            /\ hpc' = IF hDone = << >> THEN "job" ELSE "called"
            /\ pc' = IF hDone = << >> THEN "start" ELSE pc
    /\ UNCHANGED <<bucket, hThread, hRepoRef, hDone>>
    /\ HFrame

\* the patch of the handler's saveThread after the job
threadPatch ==
    [lastRepo |-> Str("o/r"),
     lastTask |-> Str("task"),
     lastPrUrl |-> Str("prUrl"),
     lastBranch |-> Str("branch"),
     lastJobId |-> JobId,
     lastPlan |-> [sanitized |-> plan]]

\* the patch of the handler's saveRepo after the job
repoPatch ==
    [lastTouchedAt |-> nowIso(clock),
     lastPrUrl |-> Str("prUrl"),
     lastBranch |-> Str("branch"),
     preferences |-> [fastPRs |-> TRUE, testsSecondary |-> TRUE]]

\* the patch of the handler's catch block
taskErrorPatch(e) ==
    [lastError |-> clampMessage(e, StoredMessageMax),
     lastErrorContext |-> Context("sandbox:task", << >>)]

\* the number of store operations of `outs` that failed
failures(outs) == Cardinality({k \in DOMAIN outs : outs[k] # "ok"})

\* sandboxFastPR returned: saveThread, saveRepo, then the reply; a save that
\* raises goes to the catch block: recordThreadError, then the failure reply
TaskSucceeded ==
    /\ hpc = "job"
    /\ pc = "done"
    /\ \E outs \in [1..3 -> StoreOutcomes] :
        LET b1 == saved(bucket, ThreadPath, threadPatch, clock, outs[1])
            b2 == saved(b1, RepoPath, repoPatch, clock, outs[2])
            e == Words("upload failed")
        IN /\ failures(outs) > 0 => enabled
           /\ faults + failures(outs) <= MaxStoreFaults
           /\ faults' = faults + failures(outs)
           /\ IF raised(outs[1]) THEN
                 /\ outs[2] = "ok"
                 /\ bucket' = recorded(bucket, taskErrorPatch(e), clock, outs[3])
                 /\ said' = "Sandbox dev failed"
              ELSE IF raised(outs[2]) THEN
                 /\ bucket' = recorded(b1, taskErrorPatch(e), clock, outs[3])
                 /\ said' = "Sandbox dev failed"
              ELSE
                 /\ outs[3] = "ok"
                 /\ bucket' = b2
                 /\ said' = "PR created"
    /\ hpc' = "replied"
    /\ UNCHANGED <<pc, hThread, hRepoMem, hRepoRef, hDone>>
    /\ HFrame

\* sandboxFastPR threw: the catch block records the error and replies
TaskFailed ==
    /\ hpc = "job"
    /\ pc = "failed"
    /\ \E o \in StoreOutcomes :
        /\ failures(<<o>>) > 0 => enabled
        /\ faults + failures(<<o>>) <= MaxStoreFaults
        /\ faults' = faults + failures(<<o>>)
        /\ bucket' = recorded(bucket, taskErrorPatch(thrown), clock, o)
    /\ said' = "Sandbox dev failed"
    /\ hpc' = "replied"
    /\ UNCHANGED <<pc, hThread, hRepoMem, hRepoRef, hDone>>
    /\ HFrame

\* the reply is out and another mention arrives in the same thread
NextMention ==
    /\ hpc = "replied"
    /\ hDone = << >>
    /\ hDone' = <<[repoRef |-> hRepoRef, said |-> said, outcome |-> pc]>>
    /\ hpc' = "mention"
    /\ hThread' = NotLoaded
    /\ hRepoMem' = NotLoaded
    /\ hRepoRef' = Null
    /\ said' = ""
    /\ UNCHANGED <<bucket, pc, faults>>
    /\ HFrame

\* a thread without a record: the first mention and, after its reply, a
\* second one
ThreadInit ==
    /\ hpc = "mention"
    /\ hThread = NotLoaded
    /\ hRepoMem = NotLoaded
    /\ said = ""
    /\ hRepoRef = Null
    /\ hDone = << >>
    /\ enabled \in BOOLEAN
    /\ bucket = [p \in ObjPaths |-> Absent]
    /\ clock = 1
    /\ call = IdleCall
    /\ nSaves = 0
    /\ lastSave = NoSave
    /\ cfg \in [octokit : {TRUE}, token : {TRUE}, anthropic : {TRUE}, runTests : BOOLEAN]
    /\ pc = "idle"
    /\ plan = NoPlan
    /\ i = 1
    /\ vi = 1
    /\ ops = << >>
    /\ thrown = NoError
    /\ pr = NoPr
    /\ dirMade = FALSE
    /\ faults = 0

HNext ==
    \/ AppMention
    \/ TaskBlock
    \/ TaskSucceeded
    \/ TaskFailed
    \/ JNext

(***************************************************************************)
(* One failing task run twice, the two runs differing in the access token  *)
(* only.  git is given the token inside the remote URL (httpsRepoUrl);     *)
(* what it prints when it fails is its own affair: a message that names no *)
(* URL, one that names the URL without its credentials, or one that quotes *)
(* the URL as it was given.  A captured text is known by what it says.     *)
(***************************************************************************)
RunIds == {1, 2}

\* config.github.token of each run
tokenOf(r) == IF r = 1 THEN <<"t", "1">> ELSE <<"t", "2">>

\* httpsRepoUrl(owner, repo, token)
httpsRepoUrl(owner, repo, token) ==
    <<"h", "t", "t", "p", "s", ":", "/", "/", "x", "-", "a", "c", "c", "e", "s", "s", "-", "t", "o", "k", "e", "n", ":">>
    \o token \o <<"@", "g", "i", "t", "h", "u", "b", ".", "c", "o", "m", "/">>
    \o owner \o <<"/">> \o repo \o <<".", "g", "i", "t">>

\* the URL with the credentials left out
bareRepoUrl(owner, repo) ==
    <<"h", "t", "t", "p", "s", ":", "/", "/">> \o <<"g", "i", "t", "h", "u", "b", ".", "c", "o", "m", "/">>
    \o owner \o <<"/">> \o repo \o <<".", "g", "i", "t">>

\* the git operations that talk to the remote, and what git may say on
\* standard error when one of them fails
RemoteOps == {"clone", "push"}
GitSays == {"no url", "bare url", "quoted url"}
StderrLens == {120, 7000}

\* the standard error of a failing git operation on the remote `url`
gitStderr(says, url, len) ==
    Text([says |-> says,
          url |-> IF says = "quoted url" THEN url
                  ELSE IF says = "bare url" THEN bareRepoUrl(Owner, Repo)
                  ELSE << >>],
         len)

\* the words and the context tag of a failing remote operation
gitWhat(op) == IF op = "clone" THEN "git clone failed" ELSE "git push failed"
gitTag(op) == IF op = "clone" THEN "git:clone" ELSE "git:push"

\* a bucket with no object
EmptyBucket == [p \in ObjPaths |-> Absent]

NoRun == [pc |-> "none"]

\* both runs meet the same failure of the same operation
UInit ==
    \E op \in RemoteOps, says \in GitSays, len \in StderrLens :
        runs = [r \in RunIds |->
                  [pc |-> "git", op |-> op, says |-> says, len |-> len,
                   token |-> tokenOf(r), bucket |-> EmptyBucket,
                   thrown |-> NoError, reply |-> NoError]]

UIdle == runs = [r \in RunIds |-> NoRun]

UFrame == UNCHANGED <<vvars, svars, jvars, rvars, kvars, hvars, gvars, tvars, avars, lvars>>

\* the git operation of run r exits non-zero: the abort point records it,
\* the catch block of sandboxFastPR records the error and throws it again
RunGitFails(r) ==
    /\ runs[r].pc = "git"
    /\ LET run == runs[r]
           res == [code |-> 1, out |-> NoText,
                   err |-> gitStderr(run.says, httpsRepoUrl(Owner, Repo, run.token),
                                     run.len)]
           e == gitError(gitWhat(run.op), res)
       IN runs' = [runs EXCEPT ![r] =
            [run EXCEPT
                !.pc = "thrown",
                !.thrown = e,
                !.bucket = recordedAll(run.bucket,
                                       <<gitAbortPatch(gitWhat(run.op), gitTag(run.op), res),
                                         catchPatch(e)>>,
                                       <<"ok", "ok">>, clock)]]
    /\ UFrame

\* the catch block of the handler of run r: recordThreadError, then the reply
\* `Sandbox dev failed: ${e.message}`
RunReplies(r) ==
    /\ runs[r].pc = "thrown"
    /\ runs' = [runs EXCEPT ![r] =
            [runs[r] EXCEPT
                !.pc = "replied",
                !.bucket = recorded(runs[r].bucket, taskErrorPatch(runs[r].thrown),
                                    clock, "ok"),
                !.reply = runs[r].thrown]]
    /\ UFrame

UNext == \E r \in RunIds : RunGitFails(r) \/ RunReplies(r)

(***************************************************************************)
(* The specifications.                                                     *)
(***************************************************************************)
\* the attempts and the limiter at rest
YIdle == AIdle /\ LIdle /\ UIdle

\* the variables of the other specifications at rest
XIdle == RIdle /\ KIdle /\ HIdle /\ GIdle /\ TIdle /\ YIdle

\* one job against a store that is disabled or enabled and empty
Init == JInit /\ VIdle /\ SInit /\ XIdle
Next == JNext
Spec == Init /\ [][Next]_vars

\* one job whose every awaited call settles: a step of the job that can be
\* taken is taken in the end
SpecLive == Init /\ [][Next]_vars /\ WF_vars(Next)

\* one failing task under two access tokens, against an enabled store
InitToken ==
    /\ UInit /\ VIdle /\ JIdle /\ RIdle /\ KIdle /\ HIdle /\ GIdle /\ TIdle /\ AIdle /\ LIdle
    /\ enabled = TRUE
    /\ bucket = EmptyBucket
    /\ clock = 1
    /\ call = IdleCall
    /\ nSaves = 0
    /\ lastSave = NoSave
SpecToken == InitToken /\ [][UNext]_vars

\* the validator applied to every bounded (program, arguments) pair
InitValidator == VInit /\ SIdle /\ JIdle /\ XIdle
SpecValidator == InitValidator /\ [][VNext]_vars

\* saves of one caller against the bucket
InitStore == SInit /\ VIdle /\ JIdle /\ XIdle
SpecStore == InitStore /\ [][SNext]_vars

\* two concurrent saves on one thread key
InitRace == RInit /\ VIdle /\ JIdle /\ KIdle /\ HIdle /\ GIdle /\ TIdle /\ YIdle
SpecRace == InitRace /\ [][RNext]_vars

\* the paths of two logical keys
InitKeys == KInit /\ VIdle /\ SIdle /\ JIdle /\ RIdle /\ HIdle /\ GIdle /\ TIdle /\ YIdle
SpecKeys == InitKeys /\ [][KNext]_vars

\* one mention holding a task block
InitHandler == HInit /\ VIdle /\ RIdle /\ KIdle /\ GIdle /\ TIdle /\ YIdle

\* the clamps on one parsed JSON
InitClamp == GInit /\ VIdle /\ SIdle /\ JIdle /\ RIdle /\ KIdle /\ HIdle /\ TIdle /\ YIdle
SpecClamp == InitClamp /\ [][GNext]_vars

\* the text functions on one response
InitText == TInit /\ VIdle /\ SIdle /\ JIdle /\ RIdle /\ KIdle /\ HIdle /\ GIdle /\ YIdle
SpecText == InitText /\ [][TNext]_vars

\* two mentions with task blocks in one thread that starts without a record
InitThread == ThreadInit /\ VIdle /\ RIdle /\ KIdle /\ GIdle /\ TIdle /\ YIdle
NextThread == HNext \/ NextMention
SpecThread == InitThread /\ [][NextThread]_vars

\* two job attempts
InitJobs ==
    /\ AInit /\ VIdle /\ SIdle /\ JIdle /\ RIdle /\ KIdle /\ HIdle /\ GIdle /\ TIdle
    /\ LIdle /\ UIdle
SpecJobs == InitJobs /\ [][ANext]_vars

\* the rate limiter
InitRate ==
    /\ LInit /\ VIdle /\ SIdle /\ JIdle /\ RIdle /\ KIdle /\ HIdle /\ GIdle /\ TIdle
    /\ AIdle /\ UIdle
SpecRate == InitRate /\ [][LNext]_vars
SpecHandler == InitHandler /\ [][HNext]_vars


(***************************************************************************)
(* Properties.                                                             *)
(***************************************************************************)
\* the entries of ops named op, in order
OpsOf(op) == SelectSeq(ops, LAMBDA o : o.op = op)
\* some entry of ops before position j is named op and satisfies ended
Before(j, op, exit) == \E k \in 1..(j - 1) : ops[k].op = op /\ ops[k].exit = exit
\* the operations that follow the loops of a job
AfterLoops == {"status", "add", "commit", "push", "pulls.create"}

\* C1: every subprocess spawned for a plan step or for a verification
\* command runs the pair the plan supplied at that position, and the
\* validator accepts that pair: a pair the validator rejects is never spawned.
C1_SpawnedPairsPassValidator ==
    \A k \in 1..Len(ops) :
        /\ ops[k].op = "step" =>
              /\ Step(ops[k].cmd, ops[k].args) = plan.steps[ops[k].idx]
              /\ commandAllowed(ops[k].cmd, ops[k].args)
        /\ ops[k].op = "verify" =>
              /\ <<ops[k].cmd>> \o ops[k].args = plan.verify.commands[ops[k].idx]
              /\ commandAllowed(ops[k].cmd, ops[k].args)

\* C1 witness: a job has spawned two plan steps and then aborted on a
\* verification command the validator rejects, which it did not spawn
C1_Witness ==
    /\ Len(OpsOf("step")) = 2
    /\ Len(OpsOf("verify")) = 0
    /\ pc = "failed"
    /\ thrown.what = "Blocked verify command:"
    /\ thrown.cmd = sh

\* C2: a call of commandAllowed with a program other than git, npm, node
\* returns false, whatever the arguments.
C2_OutsideVocabularyRejected ==
    (vVerdict # {} /\ vCmd \notin {git, npm, node}) => vVerdict = {FALSE}

\* C2 witness: GIT in capitals with a harmless argument was rejected
C2_Witness ==
    /\ vCmd = GIT
    /\ vArgs = << <<"a","d","d">> >>
    /\ vVerdict = {FALSE}

\* C3: a call of commandAllowed with program git, npm or node whose
\* lower-cased, space-joined text contains a blocked substring returns false.
C3_BlockedSubstringRejected ==
    (/\ vVerdict # {}
     /\ vCmd \in {git, npm, node}
     /\ \E b \in blocked : includes(toLowerCase(join(<<vCmd>> \o vArgs)), b))
    => vVerdict = {FALSE}

\* C3 witness: git with the argument CurL, blocked only once lower-cased,
\* was rejected
C3_Witness ==
    /\ vCmd = git
    /\ vArgs = << <<"C","u","r","L">> >>
    /\ vVerdict = {FALSE}

\* C4 as claimed: when the job aborts on a blocked bash step, no subprocess
\* has been run for any step of the plan.
C4_NoStepRanAtBlockedAbort ==
    (pc = "failed" /\ thrown.what = "Blocked command from plan:" /\ thrown.cmd = bash)
    => \A k \in 1..Len(ops) : ops[k].op # "step"

\* C4 amended: a bash step is never spawned, and when the job aborts on a
\* blocked bash step at position i, the steps spawned are those before i, each
\* exited zero: nothing was spawned for step i or a later step.
C4_BlockedStepAndLaterNeverRun ==
    /\ \A k \in 1..Len(ops) : ops[k].op = "step" => ops[k].cmd # bash
    /\ (pc = "failed" /\ thrown.what = "Blocked command from plan:" /\ thrown.cmd = bash)
       => /\ plan.steps[i].cmd = bash
          /\ Len(OpsOf("step")) = i - 1
          /\ \A k \in 1..Len(ops) :
                ops[k].op = "step" => (ops[k].idx < i /\ ops[k].exit = "zero")

\* C4 witness: the job aborted on a blocked bash step at position 2, after
\* step 1 had run
C4_Witness ==
    /\ pc = "failed"
    /\ thrown.what = "Blocked command from plan:"
    /\ thrown.cmd = bash
    /\ i = 2
    /\ Len(OpsOf("step")) = 1

\* C5: once a plan step has exited non-zero, it is the last thing the job
\* did: the steps up to it were each run once in plan order (the earlier ones
\* exited zero), no later step, verification, commit, push or change request
\* was run or follows, and the error thrown names that step's command and
\* carries what that step printed (its standard error, or its standard output
\* when that is empty, cut to the length of a log chunk).
C5_StopsAtFirstFailedStep ==
    \A j \in 1..Len(ops) :
        (ops[j].op = "step" /\ ops[j].exit = "nonzero") =>
            LET k == ops[j].idx
                ran == OpsOf("step")
            IN /\ j = Len(ops)
               /\ pc = "failed"
               /\ ~pr.created
               /\ Len(ran) = k
               /\ \A m \in 1..k :
                    /\ ran[m].idx = m
                    /\ Step(ran[m].cmd, ran[m].args) = plan.steps[m]
                    /\ m < k => ran[m].exit = "zero"
               /\ \A m \in 1..Len(ops) : ops[m].op \notin AfterLoops \cup {"verify"}
               /\ thrown.what = "Command failed:"
               /\ thrown.cmd = plan.steps[k].cmd
               /\ thrown.args = plan.steps[k].args
               /\ thrown.log =
                    safeLogChunk(IF ops[j].err.len > 0 THEN ops[j].err ELSE ops[j].out,
                                 DefaultLogMax)

\* C5 witness: step 2 of a 3-step plan exited non-zero with output on stderr
C5_Witness ==
    /\ Len(plan.steps) = 3
    /\ Len(ops) > 0
    /\ ops[Len(ops)].op = "step"
    /\ ops[Len(ops)].idx = 2
    /\ ops[Len(ops)].exit = "nonzero"
    /\ thrown.log.tag = "err"

\* C6: once git status has printed nothing after the steps, it is the last
\* thing the job did: the job has failed with the no-changes error and no
\* commit, push or change request was made.
C6_NoChangesNoCommit ==
    \A j \in 1..Len(ops) :
        (ops[j].op = "status" /\ ops[j].exit # "none" /\ ops[j].blank) =>
            /\ j = Len(ops)
            /\ pc = "failed"
            /\ thrown.what = "No changes produced in sandbox (git status clean)."
            /\ ~pr.created
            /\ \A m \in 1..Len(ops) : ops[m].op \notin {"add", "commit", "push", "pulls.create"}

\* C6 witness: every step of a 2-step plan exited zero and git status was blank
C6_Witness ==
    /\ Len(plan.steps) = 2
    /\ Len(OpsOf("step")) = 2
    /\ Len(ops) > 0
    /\ ops[Len(ops)].op = "status"
    /\ ops[Len(ops)].blank
    /\ pc = "failed"

PhaseOf(op) ==
    CASE op = "repos.get" -> 0
      [] op = "clone" -> 1
      [] op \in {"config.email", "config.name", "config.get"} -> 2
      [] op = "checkout" -> 3
      [] op = "model" -> 4
      [] op = "step" -> 5
      [] op = "verify" -> 6
      [] op = "status" -> 7
      [] op \in {"add", "commit"} -> 8
      [] op = "push" -> 9
      [] op = "pulls.create" -> 10

\* the operations every job that gets to a phase has done in the phases before
Mandatory ==
    {"repos.get", "clone", "config.email", "config.name", "config.get", "checkout",
     "model", "status", "add", "commit", "push"}

\* C8: the operations of a job follow the order of phases clone, identity
\* configuration, branch creation, planning, steps, verification, change
\* check, commit, push, change request; none is done twice, none that is due
\* is skipped; the change request follows a push that exited zero, the push a
\* commit that exited zero, the commit a change check that found changes, and
\* the plan request a branch creation that exited zero.
C8_PhasesInOrder ==
    /\ \A j, k \in 1..Len(ops) :
          j < k =>
            /\ PhaseOf(ops[j].op) <= PhaseOf(ops[k].op)
            /\ ops[j].op \in {"step", "verify"} /\ ops[j].op = ops[k].op
                  => ops[j].idx < ops[k].idx
            /\ ops[j].op \notin {"step", "verify", "model"} => ops[j].op # ops[k].op
    /\ \A k \in 1..Len(ops) : \A op \in Mandatory :
          PhaseOf(op) < PhaseOf(ops[k].op) => \E j \in 1..(k - 1) : ops[j].op = op
    /\ \A k \in 1..Len(ops) :
          /\ ops[k].op \in AfterLoops => Len(OpsOf("step")) = Len(plan.steps)
          /\ (ops[k].op \in AfterLoops /\ cfg.runTests /\ Len(plan.verify.commands) > 0)
                => Len(OpsOf("verify")) > 0
          /\ ops[k].op = "pulls.create" => Before(k, "push", "zero")
          /\ ops[k].op = "push" => Before(k, "commit", "zero")
          /\ ops[k].op = "commit" =>
                \E j \in 1..(k - 1) : ops[j].op = "status" /\ ~ops[j].blank
          /\ ops[k].op = "model" => Before(k, "checkout", "zero")

\* C8 witness: a job with steps and verification opened its change request
C8_Witness ==
    /\ pc = "done"
    /\ pr.created
    /\ Len(OpsOf("step")) = 2
    /\ Len(OpsOf("verify")) = 1
    /\ ops[Len(ops)].op = "pulls.create"

\* the fields every write stamps
Stamps == {"updatedAt", "version"}

\* C9: after a save has returned, every field its patch names (the stamps
\* aside) reads as the patch's value, and every field of the record stored
\* before the save that the patch does not name (the stamps aside) reads as
\* it did before: a patch of lastError alone leaves a stored lastRepo as it was.
C9_SaveIsMerge ==
    lastSave.outcome = "returned" =>
        LET now == bucket[lastSave.path]
            prior == orEmpty(lastSave.prior)
        IN /\ \A f \in DOMAIN lastSave.patch \ Stamps :
                Get(now, f) = lastSave.patch[f]
           /\ \A f \in DOMAIN prior \ (DOMAIN lastSave.patch \cup Stamps) :
                Get(now, f) = prior[f]

\* C10: every stored object carries version 1 and an updatedAt that is a
\* time of the clock, and after a save has returned (recordThreadError
\* included) the object's updatedAt is the time its write was issued and its
\* version is 1, whatever updatedAt and version the patch named.
C10_WritesAreStamped ==
    /\ \A p \in ObjPaths :
          bucket[p] # Absent =>
            /\ Stamps \subseteq DOMAIN bucket[p]
            /\ bucket[p]["version"] = Num(SchemaVersion)
            /\ bucket[p]["updatedAt"] \in {nowIso(c) : c \in 1..clock}
    /\ lastSave.outcome = "returned" =>
          /\ bucket[lastSave.path]["updatedAt"] = lastSave.issuedAt
          /\ bucket[lastSave.path]["version"] = Num(SchemaVersion)

\* C10 witness: a recordThreadError whose patch named a version of 7 and an
\* updatedAt of its own has returned at clock 2
C10_Witness ==
    /\ lastSave.outcome = "returned"
    /\ lastSave.fn = "recordThreadError"
    /\ Get(lastSave.patch, "version") = Num(7)
    /\ Get(lastSave.patch, "updatedAt") = [iso |-> "T0"]
    /\ lastSave.issuedAt = nowIso(2)

\* C11: saves are not serialized.  When two saves on one key with patches
\* naming disjoint fields both read the record before either writes and both
\* writes succeed, the stored record is the last writer's merge alone: every
\* field the first writer's patch named reads as it did before the two saves.
C11_LastWriteWins ==
    (/\ Len(wrote) = 2
     /\ \A c \in Racers : racers[c].sawWrites = 0 /\ racers[c].readOk
     /\ DOMAIN racers[1].patch \cap DOMAIN racers[2].patch = {})
    => LET first == wrote[1]
           last == wrote[2]
           now == bucket[ThreadPath]
       IN /\ now = jsonRoundTrip(racers[last].merged)
          /\ \A f \in DOMAIN racers[first].patch :
                Get(now, f) = Get(orEmpty(racers[first].prior), f)

\* C11 witness: caller 1 wrote lastRepo, caller 2 then wrote lastError, both
\* having read the stored record first, and the record has no lastRepo
C11_Witness ==
    /\ wrote = <<1, 2>>
    /\ \A c \in Racers : racers[c].sawWrites = 0 /\ racers[c].readOk
    /\ racers[1].patch = [lastRepo |-> Str("a")]
    /\ racers[2].patch = [lastError |-> Str("e")]
    /\ racers[1].prior # Absent
    /\ Get(bucket[ThreadPath], "lastRepo") = Undefined
    /\ Get(bucket[ThreadPath], "lastError") = Str("e")
    /\ Get(bucket[ThreadPath], "lastTask") = Str("t")

\* C12: recordThreadError never raises.  Whatever the patch and whether the
\* store is disabled, its download fails or its upload fails, a call of
\* recordThreadError that has ended has returned to its caller.
C12_RecordThreadErrorNeverRaises ==
    (lastSave.outcome # "none" /\ lastSave.fn = "recordThreadError")
    => lastSave.outcome \in {"noop", "returned", "swallowed"}

\* C12 witness: the upload of a recordThreadError failed after its download
\* had failed too, and the call returned
C12_Witness ==
    /\ lastSave.outcome = "swallowed"
    /\ lastSave.fn = "recordThreadError"
    /\ ~lastSave.readOk

\* C13: key sanitization never collides.  The object paths computed for two
\* distinct logical keys of one scope kind (two thread keys, or two
\* owner/repo pairs) are different.
C13_PathsNeverCollide ==
    (keyRun.paths # << >> /\ keyRun.a # keyRun.b)
    => keyRun.paths[1] # keyRun.paths[2]

\* C14: with no backing store configured every load returns absent, no
\* save and no recordThreadError touches storage or fails, and a job that
\* opened its change request is reported as a success.
C14_DisabledStoreIsNoOp ==
    ~enabled =>
        /\ hThread \in {NotLoaded, Absent}
        /\ hRepoMem \in {NotLoaded, Absent}
        /\ bucket[ThreadPath] \in ThreadObjects
        /\ bucket[RepoPath] = Absent
        /\ faults = 0
        /\ (hpc = "replied" /\ pc = "done") => (pr.created /\ said = "PR created")

\* C14 witness: with the store disabled and a thread object lying in the
\* bucket, a mention naming its repository ran the job from the clone to the
\* change request, through a recorded verification failure, and replied with
\* the success message
C14_Witness ==
    /\ ~enabled
    /\ bucket[ThreadPath] # Absent
    /\ hThread = Absent
    /\ hRepoMem = Absent
    /\ hpc = "replied"
    /\ pc = "done"
    /\ pr.created
    /\ plan.verify.failed
    /\ said = "PR created"
    /\ ops[2].op = "clone"
    /\ ops[Len(ops)].op = "pulls.create"

\* C15: per job the language model is asked once when its first response
\* yields a plan, and once more, never more, when it does not; when the
\* repair response yields no plan either, the job has failed with the parse
\* error and no plan step, verification, commit, push or change request was
\* made.
C15_OneRepairOnly ==
    LET models == OpsOf("model")
    IN /\ Len(models) <= 2
       /\ \A n \in 1..Len(models) : models[n].idx = n
       /\ Len(models) = 2 => (models[1].exit = "zero" /\ models[1].blank)
       /\ (Len(models) = 1 /\ models[1].blank) => pc = "repair"
       /\ (Len(models) = 2 /\ models[2].blank) =>
            /\ pc = "failed"
            /\ thrown.what = "Claude plan JSON parse failed. Got:"
            /\ ops[Len(ops)] = models[2]
            /\ plan = NoPlan
            /\ ~pr.created
            /\ \A k \in 1..Len(ops) : ops[k].op \notin AfterLoops \cup {"step", "verify"}

\* C15 witness: both responses of a job yielded no plan and the job failed
\* after its second request
C15_Witness ==
    /\ Len(OpsOf("model")) = 2
    /\ OpsOf("model")[2].blank
    /\ pc = "failed"

\* C16 as claimed: when neither response yields a plan, the error raised
\* carries a truncated snippet of the repair response, the last raw output.
C16_ParseErrorQuotesRepairResponse ==
    (pc = "failed" /\ thrown.what = "Claude plan JSON parse failed. Got:")
    => thrown.log = clampString(Raw(2), QuotedSnippetMax)

\* the first n entries of a sequence, or all of it when it is shorter
FirstOf(seq, n) == [k \in 1..(IF Len(seq) < n THEN Len(seq) ELSE n) |-> seq[k]]

\* C17: every plan the generator returns has as steps the first 30 entries
\* of the parsed steps, in order, and as verify.commands the first 6 entries
\* of the parsed commands, with the empty sequence in place of a value that
\* is missing or not an array.
C17_PlanIsClamped ==
    \A p \in clamped :
        p # TypeError =>
            /\ Len(p.steps) <= 30
            /\ Len(p.verify.commands) <= 6
            /\ p.steps = IF isArray(rawJson.steps)
                         THEN FirstOf(rawJson.steps.arr, 30) ELSE << >>
            /\ p.verify.commands =
                 IF takesProperty(rawJson.verify) /\ isArray(rawJson.verify.commands)
                 THEN FirstOf(rawJson.verify.commands.arr, 6) ELSE << >>

\* C17 witness: a parsed JSON of 32 steps and 8 verification commands came
\* back as a plan of 30 steps and 6 commands
C17_Witness ==
    /\ isArray(rawJson.steps)
    /\ Len(rawJson.steps.arr) = 32
    /\ takesProperty(rawJson.verify)
    /\ isArray(rawJson.verify.commands)
    /\ Len(rawJson.verify.commands.arr) = 8
    /\ \E p \in clamped :
        /\ Len(p.steps) = 30
        /\ p.steps[30] = NumberedStep(30)
        /\ Len(p.verify.commands) = 6

\* the fields of the error slot of a thread record
ErrorSlot ==
    {"lastError", "lastErrorAt", "lastErrorJobId", "lastErrorContext", "lastErrorLogs",
     "lastClaudeRawSnippet"}

\* C20: after a job that ended in an opened pull request, every field of
\* the error slot of the stored thread record (message, timestamp, job id,
\* context tag, logs, raw snippet) is null or absent.
C20_ErrorSlotClearedOnSuccess ==
    (pc = "done" /\ pr.created /\ bucket[ThreadPath] # Absent) =>
        \A f \in ErrorSlot :
            f \in DOMAIN bucket[ThreadPath] => bucket[ThreadPath][f] = Null

\* C18: for a valid plan JSON between an opening and a closing fence,
\* followed by commentary, extractJsonFromText returns exactly the JSON
\* between the fences.
C18_FencedBodyExtracted ==
    text.kind = "fenced" => \A e \in extracted : e = text.body

\* C19: for a plan JSON cut off inside a string of its last field,
\* extractJsonFromText followed by parsePlanJson returns a plan in which
\* every field before the cut equals that field of the whole plan.
C19_TruncatedPlanRecovered ==
    text.kind = "truncated" =>
        \A p \in parsed :
            /\ p # Null
            /\ isObject(p)
            /\ \A f \in BeforeVerify :
                /\ f \in DOMAIN p.members
                /\ p.members[f] = safeJsonParse(text.body).members[f]

\* C21: with an enabled and working store, when a job has failed the stored
\* thread record holds a non-null error message and the job id of that
\* attempt.
C21_FailurePersistedBeforeThrown ==
    (pc = "failed" /\ enabled /\ faults = 0) =>
        /\ bucket[ThreadPath] # Absent
        /\ Get(bucket[ThreadPath], "lastError") \notin {Null, Undefined}
        /\ Get(bucket[ThreadPath], "lastErrorJobId") = JobId

\* the context tag that names the operation an error came from
PhaseTag(e) ==
    CASE e.what = "git clone failed" -> Context("git:clone", << >>)
      [] e.what = "git config user.email failed" -> Context("git:config:email", << >>)
      [] e.what = "git config user.name failed" -> Context("git:config:name", << >>)
      [] e.what = "git checkout failed" -> Context("git:checkout", << >>)
      [] e.what = "git commit failed" -> Context("git:commit", << >>)
      [] e.what = "git push failed" -> Context("git:push", << >>)
      [] e.what = "Command failed:" -> Context("plan:exec", e.cmd)
      [] OTHER -> Null

\* C22: with an enabled and working store, after a job was aborted by a
\* failing git operation or plan step, the context tag stored in the thread
\* record names the operation that failed.
C22_ContextNamesFailedOperation ==
    (pc = "failed" /\ enabled /\ faults = 0 /\ PhaseTag(thrown) # Null) =>
        Get(bucket[ThreadPath], "lastErrorContext") = PhaseTag(thrown)

\* C23: a pull request body holds the verification warning only if a
\* verification command was run in that job and exited non-zero.
C23_WarningOnlyAfterFailedVerification ==
    (pr.created /\ pr.warning) =>
        \E j \in 1..Len(ops) : ops[j].op = "verify" /\ ops[j].exit = "nonzero"

\* the errors of the guards on credentials and clients
ConfigErrors ==
    {Words("GITHUB_TOKEN missing"), Words("GITHUB_TOKEN missing in container"),
     Words("ANTHROPIC_API_KEY missing")}

\* C24: a job that lacks the code-host client, the code-host token or the
\* model client never makes its directory, spawns no subprocess and calls
\* neither the code host nor the language model; it fails with the error of
\* the guard.
C24_ConfigErrorFailsFast ==
    (~cfg.octokit \/ ~cfg.token \/ ~cfg.anthropic) =>
        /\ ~dirMade
        /\ ops = << >>
        /\ plan = NoPlan
        /\ pc \in {"start", "failed"}
        /\ pc = "failed" => thrown \in ConfigErrors

\* C24 witness: a job without the model client has failed at the guard
C24_Witness ==
    /\ cfg.octokit /\ cfg.token /\ ~cfg.anthropic
    /\ pc = "failed"
    /\ thrown = Words("ANTHROPIC_API_KEY missing")
    /\ ~dirMade
    /\ ops = << >>

\* C25: nothing but the plan request is made twice in a job.  Each git
\* operation of the engine and each API call on the code host appears at most
\* once among the operations of a job, each plan step and each verification
\* command is spawned at most once, in the order of the plan, and the
\* language model is asked at most twice.
C25_NothingRetried ==
    /\ \A j, k \in 1..Len(ops) :
          (j < k /\ ops[j].op = ops[k].op) =>
              /\ ops[j].op \in {"step", "verify", "model"}
              /\ ops[j].idx < ops[k].idx
    /\ \A j \in 1..Len(ops) :
          /\ ops[j].op = "step" => ops[j].idx \in 1..Len(plan.steps)
          /\ ops[j].op = "verify" => ops[j].idx \in 1..Len(plan.verify.commands)
          /\ ops[j].op = "model" => ops[j].idx \in 1..2

\* C25 witness: a job ended in a pull request after a repair request, two
\* plan steps and every git operation of the engine
C25_Witness ==
    /\ pc = "done"
    /\ pr.created
    /\ \E j \in 1..Len(ops) : ops[j].op = "model" /\ ops[j].idx = 2
    /\ \E j \in 1..Len(ops) : ops[j].op = "step" /\ ops[j].idx = 2
    /\ \A o \in {"clone", "config.email", "config.name", "config.get", "checkout",
                 "status", "add", "commit", "push", "pulls.create"} :
          \E j \in 1..Len(ops) : ops[j].op = o

AdmittedIn(user, t) ==
    Cardinality({k \in 1..Len(admitted[user]) :
                    admitted[user][k] >= t /\ admitted[user][k] < t + 30000})

\* C27: for every user and every interval of 30 seconds, at most 6 of the
\* user's requests are let through.
C27_SixPerThirtySecondsPerUser ==
    \A u \in Users : \A t \in Instants : AdmittedIn(u, t) <= 6

\* C28: with the store enabled and working, once a task block naming a
\* repository was handled in a thread, with the job run to its end, a later
\* task block in the thread that leaves the repo line out is not answered
\* with the request for a repo.
C28_RepoRememberedInThread ==
    (/\ enabled
     /\ faults = 0
     /\ Len(hDone) = 1
     /\ hDone[1].repoRef # Null
     /\ hDone[1].outcome \in {"done", "failed"}
     /\ hRepoRef = Null
     /\ hpc \in {"replied", "called"}) =>
        said # "I need a repo."

\* C29: a response that is valid JSON but holds no title or no sequence of
\* steps yields no plan: parsePlanJson gives a falsy value for it, which
\* sends the generator to the repair request or to the parse failure.
C29_SchemalessYieldsNoPlan ==
    text.kind = "schemaless" => \A p \in parsed : ~truthy(p)

\* C30: for a valid plan JSON inside a complete fenced block that comes
\* after explanatory text, extractJsonFromText returns the JSON body.
C30_PrefacedBodyExtracted ==
    text.kind = "prefaced" => \A e \in extracted : e = text.body


\* C31: with an enabled and working store, after a plan step that exited
\* non-zero having printed more than the cap of the stored excerpt, the log
\* excerpt of the stored error slot and the log the thrown error carries are
\* the last characters of what the step printed, and the stored excerpt is
\* no longer than the cap.
C31_ExcerptIsCappedTail ==
    (/\ pc = "failed" /\ enabled /\ faults = 0
     /\ Len(ops) > 0
     /\ ops[Len(ops)].op = "step"
     /\ ops[Len(ops)].exit = "nonzero"
     /\ errOrOut(ops[Len(ops)]).len > StoredLogMax) =>
        /\ Get(bucket[ThreadPath], "lastErrorLogs").tag = errOrOut(ops[Len(ops)]).tag
        /\ Get(bucket[ThreadPath], "lastErrorLogs").len <= StoredLogMax
        /\ Get(bucket[ThreadPath], "lastErrorLogs").part = "tail"
        /\ thrown.log.part = "tail"


C33_TokenNeverStoredNorReplied ==
    (\A r \in RunIds : runs[r].pc = "replied") =>
        /\ runs[1].bucket = runs[2].bucket
        /\ runs[1].reply = runs[2].reply


\* C34: when the object of a key exists and the download inside a save of
\* that key fails, then after the save has returned every field the object
\* held that the patch does not name (the stamps aside) is still in the
\* object, with the value it had.
C34_ReadFailureKeepsFields ==
    (/\ lastSave.outcome = "returned"
     /\ lastSave.prior # Absent
     /\ ~lastSave.readOk) =>
        \A f \in DOMAIN lastSave.prior \ (DOMAIN lastSave.patch \cup Stamps) :
            /\ f \in DOMAIN bucket[lastSave.path]
            /\ bucket[lastSave.path][f] = lastSave.prior[f]


(***************************************************************************)
(* A job on a thread on which an earlier job has failed.  The thread       *)
(* record is the one the earlier attempt left: the records of its abort    *)
(* point, of the catch block of sandboxFastPR and of the catch block of    *)
(* the handler, under the earlier attempt's job id.  Every value the       *)
(* earlier attempt wrote carries a mark, which no code reads.              *)
(***************************************************************************)
EarlierJobId == [id |-> "job0"]

\* a value with the mark of the earlier attempt
marked(v) == [f \in DOMAIN v \cup {"earlier"} |-> IF f = "earlier" THEN TRUE ELSE v[f]]
\* the value was written by the earlier attempt
earlier(v) == "earlier" \in DOMAIN v

\* the recordThreadError patches of an earlier attempt that failed at a plan
\* step, and of one whose two responses both yielded no plan
EarlierStepFailed ==
    LET printed == Text("err", 7000)
        e == Error("Command failed:", git, << <<"a","d","d">> >>,
                   safeLogChunk(printed, DefaultLogMax))
    IN <<abortPatch("Plan command failed", Context("plan:exec", git),
                    clampString(safeLogChunk(printed, StoredLogMax), StoredLogMax)),
         catchPatch(e), taskErrorPatch(e)>>
EarlierParseFailed ==
    LET e == Error("Claude plan JSON parse failed. Got:", << >>, << >>,
                   clampString(Raw(1), QuotedSnippetMax))
    IN <<parsePatch("Claude plan returned invalid JSON (first pass).",
                    "planning:parse:first_pass", Raw(1)),
         parsePatch("Claude plan returned invalid JSON (repair pass).",
                    "planning:parse:repair_pass", Raw(2)),
         catchPatch(e), taskErrorPatch(e)>>

\* the thread record after the recordThreadError calls of `patches` on an
\* empty bucket, as the earlier attempt's
leftBy(patches) ==
    LET rec == recordedAll(EmptyBucket, patches, [k \in 1..Len(patches) |-> "ok"],
                           1)[ThreadPath]
    IN [f \in DOMAIN rec |->
            IF f = "lastErrorJobId" THEN marked(EarlierJobId)
            ELSE IF f \in ErrorSlot /\ rec[f] # Null THEN marked(rec[f])
            ELSE rec[f]]

\* the job starts at a later time, with the store enabled
InitAgain ==
    /\ JInit /\ VIdle /\ XIdle
    /\ enabled = TRUE
    /\ bucket \in {[p \in ObjPaths |-> IF p = ThreadPath THEN leftBy(patches) ELSE Absent] :
                        patches \in {EarlierStepFailed, EarlierParseFailed}}
    /\ clock = 2
    /\ call = IdleCall
    /\ nSaves = 0
    /\ lastSave = NoSave
SpecAgain == InitAgain /\ [][Next]_vars

\* the fields of the error slot that go with its message
ErrorDetails ==
    {"lastErrorJobId", "lastErrorContext", "lastErrorLogs", "lastClaudeRawSnippet"}

\* C35: on a thread whose jobs run one after the other, whenever the stored
\* error message is not null, the job id, the context tag, the logs and the
\* raw model snippet of the error slot that are not null were written by the
\* attempt that wrote the message.
C35_ErrorSlotOfOneAttempt ==
    LET rec == bucket[ThreadPath]
    IN Get(rec, "lastError") \notin {Null, Undefined} =>
          \A f \in ErrorDetails :
              Get(rec, f) \notin {Null, Undefined} =>
                  earlier(rec[f]) = earlier(rec["lastError"])


\* the fields of a thread record a successful task writes
TaskFields == {"lastRepo", "lastTask", "lastPrUrl", "lastBranch", "lastJobId", "lastPlan"}

\* C36: when the job of a mention has failed, at any point and up to the
\* failure reply, the thread record holds lastRepo, lastTask, lastPrUrl,
\* lastBranch, lastJobId and lastPlan as it held them before the mention,
\* and the repository record is as it was.
C36_FailedJobKeepsTaskFields ==
    (pc = "failed" /\ hpc \in {"job", "replied"}) =>
        /\ bucket[ThreadPath] # Absent
        /\ \A o \in ThreadObjects : \A f \in TaskFields :
              Get(bucket[ThreadPath], f) = Get(o, f)
        /\ bucket[RepoPath] = Absent


(***************************************************************************)
(* Two jobs of one thread that run at the same time, each from its last    *)
(* recordThreadError on: the clearing call of a job that has opened its    *)
(* pull request, or the call of the catch block of a job that has failed.  *)
(* The call is a saveThread, cut at its download and its upload as above;  *)
(* when the store has taken the upload, the response reaches the job and   *)
(* the job returns or throws.                                              *)
(***************************************************************************)
\* makeJobId() of the two jobs
jobIdOf(c) == [id |-> IF c = 1 THEN "job1" ELSE "job2"]

\* the patch of the last recordThreadError of job c
lastPatch(c, failed) ==
    IF failed
    THEN [catchPatch(Words("pulls.create failed")) EXCEPT !.lastErrorJobId = jobIdOf(c)]
    ELSE clearPatch

\* job c has made the call of its catch block
threw(c) == racers[c].patch["lastError"] # Null

\* the jobs that have returned or thrown
Finished == {c \in Racers : racers[c].pc = "finished"}

\* job c reaches its last recordThreadError and requests the download
LastRecord(c) ==
    /\ racers[c].pc = "idle"
    /\ \E failed \in BOOLEAN :
        racers' = [racers EXCEPT ![c] =
                      [pc |-> "reading", path |-> brainObjectPath("threads", ThreadKey),
                       patch |-> errorPatch(lastPatch(c, failed), clock)]]
    /\ UNCHANGED <<bucket, wrote>>
    /\ RFrame

\* the response to the upload of job c arrives: recordThreadError returns
\* and the job returns its result or throws its error again
JobEnds(c) ==
    /\ racers[c].pc = "ended"
    /\ racers' = [racers EXCEPT ![c] =
                      [pc |-> "finished", patch |-> racers[c].patch,
                       readOk |-> racers[c].readOk,
                       order |-> Cardinality(Finished) + 1]]
    /\ UNCHANGED <<bucket, wrote>>
    /\ RFrame

FNext ==
    \E c \in Racers :
        \/ LastRecord(c)
        \/ RaceRead(c)
        \/ RaceWrite(c)
        \/ JobEnds(c)

InitFinish == RInit /\ VIdle /\ JIdle /\ KIdle /\ HIdle /\ GIdle /\ TIdle /\ YIdle
SpecFinish == InitFinish /\ [][FNext]_vars

\* C37: when two concurrent jobs of a thread have both finished, every
\* download and upload of their last recordThreadError having succeeded, and
\* the job that finished last has failed, the thread record holds a non-null
\* error message and that job's id as the error job id.
C37_LastFailureStays ==
    \A c \in Racers :
        (/\ Finished = Racers
         /\ racers[c].order = 2
         /\ threw(c)
         /\ Len(wrote) = 2
         /\ \A d \in Racers : racers[d].readOk) =>
            /\ Get(bucket[ThreadPath], "lastError") \notin {Null, Undefined}
            /\ Get(bucket[ThreadPath], "lastErrorJobId") = jobIdOf(c)

\* the first position of the plan whose step the validator rejects, 0 when it
\* passes them all
firstRejected ==
    LET rejected == {k \in 1..Len(plan.steps) :
                        ~commandAllowed(plan.steps[k].cmd, plan.steps[k].args)}
    IN IF rejected = {} THEN 0
       ELSE CHOOSE k \in rejected : \A j \in rejected : k <= j

\* C38: the validator is asked about a step only when the loop reaches it.
\* The steps run so far are the plan's first steps in order, each one passed
\* by the validator; and when the job aborts on a rejected step, that step is
\* the first one of the plan the validator rejects, at position k, the steps
\* run are exactly steps 1..k-1, each exited zero, and nothing was run for
\* step k or a later step.
C38_ValidationInterleaved ==
    LET ran == OpsOf("step")
    IN /\ \A m \in 1..Len(ran) :
            /\ ran[m].idx = m
            /\ ran[m].cmd = plan.steps[m].cmd
            /\ ran[m].args = plan.steps[m].args
            /\ commandAllowed(ran[m].cmd, ran[m].args)
       /\ (pc = "failed" /\ thrown.what = "Blocked command from plan:")
          => \A k \in {firstRejected} :
                /\ k = i
                /\ thrown.cmd = plan.steps[k].cmd
                /\ thrown.args = plan.steps[k].args
                /\ Len(ran) = k - 1
                /\ \A m \in 1..Len(ran) : ran[m].exit = "zero"

\* C38 witness: the job aborted on the rejected step at position 2 of a plan
\* of three steps, after step 1 had been run to a zero exit; step 3 was never
\* looked at
C38_Witness ==
    /\ pc = "failed"
    /\ thrown.what = "Blocked command from plan:"
    /\ Len(plan.steps) = 3
    /\ firstRejected = 2
    /\ Len(OpsOf("step")) = 1
    /\ OpsOf("step")[1].exit = "zero"

==========================================================================
